---- MODULE Spec2Model ----
(***************************************************************************)
(* Review-session state machine of commit-diff-reviewer (SessionManager in *)
(* src/src/services/diffParser.ts, lines 264-673) over a key-value store   *)
(* (vscode workspaceState under SESSION_STORAGE_KEY).                      *)
(*                                                                         *)
(* Every JavaScript value that a variable can hold is a record, so that    *)
(* null, undefined, booleans and objects can be compared with each other.  *)
(***************************************************************************)
EXTENDS Integers, Sequences, FiniteSets, TLC

VARIABLES
    session,   \* SessionManager.session: Null or a ReviewSession
    store,     \* workspaceState slot SESSION_STORAGE_KEY: Null or a SerializedSession
    lastOp,    \* the operation that ran last and its argument
    ret,       \* what that operation returned
    effects,   \* store writes and emitted events of that operation, in order
    commands,  \* the reject commands that are suspended at an await, in order of invocation
    document   \* per change id, how often its revert edit was applied to its document

vars == <<session, store, lastOp, ret, effects, commands, document>>

---------------------------------------------------------------------------
(* Bounds of the model *)

MaxChanges == 3     \* longest change list handed to startSession
MaxCommits == 1     \* number of distinct commits a session can be started on
MaxNotes == 1       \* most notes held by a session
MaxLongChanges == 4 \* longest change list of the jump-and-resolve scenarios
MaxReviewNotes == 3  \* longest note list of the note scenarios
MaxSections == 2     \* most sections of a diff text
MaxSectionLines == 5 \* most lines that follow the first line of a diff section
MaxLine == 6        \* number of lines of an edited document; no anchor is moved past it
MaxCommands == 2    \* most reject commands that are suspended at the same time

---------------------------------------------------------------------------
(* JavaScript values *)

Null == [kind |-> "null"]
Undefined == [kind |-> "undefined"]
BoolVal(b) == [kind |-> "bool", b |-> b]

\* seq[i] of a JavaScript array (0-indexed): undefined outside the array
At(seq, i) == IF i >= 0 /\ i < Len(seq) THEN seq[i + 1] ELSE Undefined

\* a % b of JavaScript for b > 0: the result takes the sign of the dividend
JsRem(a, b) == IF a >= 0 THEN a % b ELSE 0 - ((0 - a) % b)

\* `v || null`: undefined becomes null
OrNull(v) == IF v = Undefined THEN Null ELSE v

---------------------------------------------------------------------------
(* Inputs *)

\* an absolute path is the sequence of its parts: the workspace root, the
\* separator and the path of the file in the repository
PathOf(name) == <<"ws", "/", name>>
Files == {PathOf("fileA"), PathOf("fileB")}
\* two distinct readings of the clock
Times == {0, 1}
Commits == 1 .. MaxCommits

\* ids are opaque; the p-th change parsed from commit k gets id 100*k + p
ChangeIdOf(k, p) == 100 * k + p
UnknownId == 99

\* the ids an operation is invoked with: every id of the session and one id
\* that is in no session
ChangeIds(s) ==
    (IF s = Null THEN {} ELSE {s.changes[p].id : p \in 1 .. Len(s.changes)})
        \cup {UnknownId}

NoteIds == 201 .. (200 + MaxNotes)

\* a DiffChange as the parser emits it (status pending); the first change of
\* a list is in fileA, the others in fileB
MkChange(k, p) ==
    [id |-> ChangeIdOf(k, p),
     type |-> "modify",
     filePath |-> PathOf(IF p = 1 THEN "fileA" ELSE "fileB"),
     oldLineStart |-> 2 * p,
     oldLineCount |-> 1,
     newLineStart |-> 2 * p,
     newLineCount |-> 1,
     oldContent |-> <<"old">>,
     newContent |-> <<"new">>,
     status |-> "pending"]

ChangeList(k, n) == [p \in 1 .. n |-> MkChange(k, p)]

CommitInfo(k) ==
    [commitHash |-> 1000 + k, shortHash |-> 100 + k,
     commitMessage |-> 10 + k, baseCommitHash |-> 2000 + k]

MkNote(id, f, t) ==
    [id |-> id, filePath |-> f, line |-> 3, content |-> "text",
     status |-> "active", createdAt |-> t, updatedAt |-> t]

\* the documents that are edited: a file of the session under either
\* separator convention, and a file the commit did not touch
Uris ==
    {[fsPath |-> <<"ws", sep, "fileB">>] : sep \in {"/", "\\"}}
        \cup {[fsPath |-> PathOf("fileC")]}

\* replacement texts, character by character
Texts == {<<>>, <<"\n">>, <<"x", "\n", "x", "\n">>}

\* a TextDocumentContentChangeEvent: the replaced range (0-indexed lines) and
\* the replacement text
MkEdit(a, b, t) ==
    [range |-> [start |-> [line |-> a], end |-> [line |-> b]], text |-> t]

EditLines == 0 .. (MaxLine - 1)

\* the lengths of the change lists of the document-edit scenarios: one change
\* in fileA, or that one and two more in fileB
MapLengths == {1, 3}

\* the same where notes are taken: one change in fileA, with or without one
\* in fileB
NotedLengths == {1, 2}

Edits == {MkEdit(a, b, t) : a \in EditLines, b \in EditLines, t \in Texts}

\* the contentChanges of one document change event: one edit over a range of
\* up to three lines, or two line breaks typed at once with cursors on two
\* adjacent lines
EditLists ==
    {<<e>> : e \in {f \in Edits : /\ f.range.start.line <= f.range.end.line
                                  /\ f.range.end.line <= f.range.start.line + 2}}
        \cup {<<MkEdit(a, a, <<"\n">>), MkEdit(a + 1, a + 1, <<"\n">>)>> :
                 a \in 0 .. (MaxLine - 2)}

---------------------------------------------------------------------------
(* Dates *)

\* Date.prototype.toISOString: the instant as a string
toISOString(d) == [iso |-> d]

\* new Date(isoString): the instant the string denotes
DateFromISO(str) == str.iso

---------------------------------------------------------------------------
(* Effects of one operation *)

PersistEff(ser) == [eff |-> "persist", value |-> ser]
ClearEff == [eff |-> "clear"]
\* emit(name, payload); cursor is session.currentIndex at the moment of the
\* emit (-1 when there is no session)
EmitEff(name, payload, s) ==
    [eff |-> "emit", name |-> name, payload |-> payload,
     cursor |-> IF s = Null THEN -1 ELSE s.currentIndex]

Result(s, st, r, effs) == [session |-> s, store |-> st, ret |-> r, effects |-> effs]

---------------------------------------------------------------------------
(* Read-only projections of the SessionManager *)

IsPending(c) == c.status = "pending"

\* this.session?.changes.filter(c => c.status === 'pending') || []
getPendingChanges(s) == IF s = Null THEN <<>> ELSE SelectSeq(s.changes, IsPending)

\* index (1-based) of the first element of seq whose id is id, 0 when none:
\* Array.prototype.find / findIndex scan from the front
RECURSIVE FirstIndexFrom(_, _, _)
FirstIndexFrom(seq, id, i) ==
    IF i > Len(seq) THEN 0
    ELSE IF seq[i].id = id THEN i
    ELSE FirstIndexFrom(seq, id, i + 1)

FirstIndex(seq, id) == FirstIndexFrom(seq, id, 1)

\* this.session?.changes.find(c => c.id === changeId) || null
getChangeById(s, changeId) ==
    IF s = Null THEN Null
    ELSE LET i == FirstIndex(s.changes, changeId)
         IN OrNull(IF i = 0 THEN Undefined ELSE s.changes[i])

\* variant: the cursor indexes the full change list
getCurrentChange_FullList(s) ==
    IF s = Null THEN Null
    ELSE IF s.currentIndex < 0 THEN Null
    ELSE IF s.currentIndex >= Len(getPendingChanges(s)) THEN Null
    ELSE At(s.changes, s.currentIndex)

getCurrentChange(s) ==
    IF s = Null THEN Null
    ELSE IF s.currentIndex < 0 THEN Null
    ELSE LET pending == getPendingChanges(s)
         IN IF s.currentIndex >= Len(pending) THEN Null
            ELSE At(pending, s.currentIndex)

IsAccepted(c) == c.status = "accepted"

IsRejected(c) == c.status = "rejected"

\* variant: every change that is not accepted counts as rejected
getSessionStats_RestRejected(s) ==
    IF s = Null THEN [kind |-> "stats", accepted |-> 0, rejected |-> 0, pending |-> 0]
    ELSE [kind |-> "stats",
          accepted |-> Len(SelectSeq(s.changes, IsAccepted)),
          rejected |-> Len(s.changes) - Len(SelectSeq(s.changes, IsAccepted)),
          pending |-> Len(SelectSeq(s.changes, IsPending))]

getSessionStats(s) ==
    IF s = Null THEN [kind |-> "stats", accepted |-> 0, rejected |-> 0, pending |-> 0]
    ELSE [kind |-> "stats",
          accepted |-> Len(SelectSeq(s.changes, IsAccepted)),
          rejected |-> Len(SelectSeq(s.changes, IsRejected)),
          pending |-> Len(SelectSeq(s.changes, IsPending))]

---------------------------------------------------------------------------
(* Persistence *)

Serialize(s) ==
    [kind |-> "serialized",
     commitHash |-> s.commitHash,
     shortHash |-> s.shortHash,
     commitMessage |-> s.commitMessage,
     baseCommitHash |-> s.baseCommitHash,
     changes |-> s.changes,
     notes |-> s.notes,
     currentIndex |-> s.currentIndex,
     startedAt |-> toISOString(s.startedAt)]

\* the form written by the releases that had no notes
LegacySerialize(s) ==
    [kind |-> "serialized",
     commitHash |-> s.commitHash,
     shortHash |-> s.shortHash,
     commitMessage |-> s.commitMessage,
     baseCommitHash |-> s.baseCommitHash,
     changes |-> s.changes,
     currentIndex |-> s.currentIndex,
     startedAt |-> toISOString(s.startedAt)]

\* writes the slot when a session is active; yields the slot and the write
persistSession(s, st) ==
    IF s = Null THEN [store |-> st, effects |-> <<>>]
    ELSE [store |-> Serialize(s), effects |-> <<PersistEff(Serialize(s))>>]

\* serialized.notes || []
StoredNotes(ser) == IF "notes" \in DOMAIN ser THEN ser.notes ELSE <<>>

\* variant: the restored session starts over at the first change
restoreSession_CursorReset(st) ==
    IF st = Null THEN Result(Null, st, Undefined, <<>>)
    ELSE LET s == [kind |-> "session",
                   commitHash |-> st.commitHash,
                   shortHash |-> st.shortHash,
                   commitMessage |-> st.commitMessage,
                   baseCommitHash |-> st.baseCommitHash,
                   changes |-> st.changes,
                   notes |-> StoredNotes(st),
                   currentIndex |-> 0,
                   startedAt |-> DateFromISO(st.startedAt)]
         IN Result(s, st, Undefined, <<EmitEff("sessionRestored", s, s)>>)

\* the session a manager constructed over slot st starts with
restoreSession(st) ==
    IF st = Null THEN Result(Null, st, Undefined, <<>>)
    ELSE LET s == [kind |-> "session",
                   commitHash |-> st.commitHash,
                   shortHash |-> st.shortHash,
                   commitMessage |-> st.commitMessage,
                   baseCommitHash |-> st.baseCommitHash,
                   changes |-> st.changes,
                   notes |-> StoredNotes(st),
                   currentIndex |-> st.currentIndex,
                   startedAt |-> DateFromISO(st.startedAt)]
         IN Result(s, st, Undefined, <<EmitEff("sessionRestored", s, s)>>)

\* a normalizeIndex that leaves the cursor where it is
normalizeIndex_KeepsCursor(s) == s

\* variant: a cursor past the end is clamped to the last pending change
normalizeIndex_ClampToLast(s) ==
    IF s = Null THEN s
    ELSE LET pending == getPendingChanges(s)
         IN IF Len(pending) = 0 THEN s
            ELSE IF s.currentIndex >= Len(pending)
                 THEN [s EXCEPT !.currentIndex = Len(pending) - 1]
                 ELSE s

\* wrap the cursor to 0 when it fell off the end of the pending list
normalizeIndex(s) ==
    IF s = Null THEN s
    ELSE LET pending == getPendingChanges(s)
         IN IF Len(pending) = 0 THEN s
            ELSE IF s.currentIndex >= Len(pending)
                 THEN [s EXCEPT !.currentIndex = 0]
                 ELSE s

---------------------------------------------------------------------------
(* Operations of the SessionManager: each yields the session and the store *)
(* it leaves, its return value and its effects in order                    *)

\* variant: the new session is installed and announced but not persisted
startSession_NoPersist(s, st, info, changes, now) ==
    LET s1 == [kind |-> "session",
               commitHash |-> info.commitHash,
               shortHash |-> info.shortHash,
               commitMessage |-> info.commitMessage,
               baseCommitHash |-> info.baseCommitHash,
               changes |-> changes,
               notes |-> <<>>,
               currentIndex |-> 0,
               startedAt |-> now]
    IN Result(s1, st, Undefined, <<EmitEff("sessionStarted", s1, s1)>>)

startSession(s, st, info, changes, now) ==
    LET s1 == [kind |-> "session",
               commitHash |-> info.commitHash,
               shortHash |-> info.shortHash,
               commitMessage |-> info.commitMessage,
               baseCommitHash |-> info.baseCommitHash,
               changes |-> changes,
               notes |-> <<>>,
               currentIndex |-> 0,
               startedAt |-> now]
        p == persistSession(s1, st)
    IN Result(s1, p.store, Undefined,
              p.effects \o <<EmitEff("sessionStarted", s1, s1)>>)

\* variant: the counts are taken after the session was dropped
endSession_StatsAfterDrop(s, st) ==
    IF s = Null THEN Result(s, st, Null, <<>>)
    ELSE Result(Null, Null, getSessionStats(Null),
                <<ClearEff, EmitEff("sessionEnded", Undefined, Null)>>)

endSession(s, st) ==
    IF s = Null THEN Result(s, st, Null, <<>>)
    ELSE LET stats == getSessionStats(s)
         IN Result(Null, Null, stats,
                   <<ClearEff, EmitEff("sessionEnded", Undefined, Null)>>)

\* variant: the guard only checks that the change exists
canResolve_ExistsOnly(change) == change # Null

\* the guard of acceptChange and rejectChange: the change exists and is pending
canResolve(change) == change # Null /\ change.status = "pending"

\* variant: the guard refuses accepted changes only, not rejected ones
acceptChange_RefusesAcceptedOnly(s, st, changeId) ==
    LET change == getChangeById(s, changeId)
    IN IF change = Null \/ change.status = "accepted"
       THEN Result(s, st, BoolVal(FALSE), <<>>)
       ELSE LET i == FirstIndex(s.changes, changeId)
                s1 == [s EXCEPT !.changes[i].status = "accepted"]
                p == persistSession(s1, st)
                s2 == normalizeIndex(s1)
            IN Result(s2, p.store, BoolVal(TRUE),
                      p.effects \o <<EmitEff("changeAccepted", s2.changes[i], s2),
                                     EmitEff("changeUpdated", s2.changes[i], s2)>>)

acceptChange_NormalizeAfterEvents(s, st, changeId) ==
    LET change == getChangeById(s, changeId)
    IN IF ~canResolve(change) THEN Result(s, st, BoolVal(FALSE), <<>>)
       ELSE LET i == FirstIndex(s.changes, changeId)
                s1 == [s EXCEPT !.changes[i].status = "accepted"]
                p == persistSession(s1, st)
                s2 == normalizeIndex(s1)
            IN Result(s2, p.store, BoolVal(TRUE),
                      p.effects \o <<EmitEff("changeAccepted", s1.changes[i], s1),
                                     EmitEff("changeUpdated", s1.changes[i], s1)>>)

acceptChange(s, st, changeId) ==
    LET change == getChangeById(s, changeId)
    IN IF ~canResolve(change) THEN Result(s, st, BoolVal(FALSE), <<>>)
       ELSE LET i == FirstIndex(s.changes, changeId)
                s1 == [s EXCEPT !.changes[i].status = "accepted"]
                p == persistSession(s1, st)
                s2 == normalizeIndex(s1)
            IN Result(s2, p.store, BoolVal(TRUE),
                      p.effects \o <<EmitEff("changeAccepted", s2.changes[i], s2),
                                     EmitEff("changeUpdated", s2.changes[i], s2)>>)

rejectChange_DropsChange(s, st, changeId) ==
    LET change == getChangeById(s, changeId)
    IN IF ~canResolve(change) THEN Result(s, st, BoolVal(FALSE), <<>>)
       ELSE LET i == FirstIndex(s.changes, changeId)
                rejected == [s.changes[i] EXCEPT !.status = "rejected"]
                s1 == [s EXCEPT !.changes = SubSeq(s.changes, 1, i - 1)
                                              \o SubSeq(s.changes, i + 1,
                                                        Len(s.changes))]
                p == persistSession(s1, st)
                s2 == normalizeIndex(s1)
            IN Result(s2, p.store, BoolVal(TRUE),
                      p.effects \o <<EmitEff("changeRejected", rejected, s2),
                                     EmitEff("changeUpdated", rejected, s2)>>)

rejectChange(s, st, changeId) ==
    LET change == getChangeById(s, changeId)
    IN IF ~canResolve(change) THEN Result(s, st, BoolVal(FALSE), <<>>)
       ELSE LET i == FirstIndex(s.changes, changeId)
                s1 == [s EXCEPT !.changes[i].status = "rejected"]
                p == persistSession(s1, st)
                s2 == normalizeIndex(s1)
            IN Result(s2, p.store, BoolVal(TRUE),
                      p.effects \o <<EmitEff("changeRejected", s2.changes[i], s2),
                                     EmitEff("changeUpdated", s2.changes[i], s2)>>)

\* variant: the cursor advances without wrapping
nextChange_NoWrap(s, st) ==
    IF s = Null THEN Result(s, st, Null, <<>>)
    ELSE LET pending == getPendingChanges(s)
         IN IF Len(pending) = 0 THEN Result(s, st, Null, <<>>)
            ELSE LET s1 == [s EXCEPT !.currentIndex = s.currentIndex + 1]
                     p == persistSession(s1, st)
                     change == At(pending, s1.currentIndex)
                 IN Result(s1, p.store, change,
                           p.effects \o <<EmitEff("currentChangeUpdated", change, s1)>>)

nextChange(s, st) ==
    IF s = Null THEN Result(s, st, Null, <<>>)
    ELSE LET pending == getPendingChanges(s)
         IN IF Len(pending) = 0 THEN Result(s, st, Null, <<>>)
            ELSE LET s1 == [s EXCEPT !.currentIndex =
                                JsRem(s.currentIndex + 1, Len(pending))]
                     p == persistSession(s1, st)
                     change == At(pending, s1.currentIndex)
                 IN Result(s1, p.store, change,
                           p.effects \o <<EmitEff("currentChangeUpdated", change, s1)>>)

\* variant: the empty pending list is not checked for
prevChange_NoEmptyCheck(s, st) ==
    IF s = Null THEN Result(s, st, Null, <<>>)
    ELSE LET pending == getPendingChanges(s)
             i1 == s.currentIndex - 1
             s1 == [s EXCEPT !.currentIndex =
                        IF i1 < 0 THEN Len(pending) - 1 ELSE i1]
             p == persistSession(s1, st)
             change == At(pending, s1.currentIndex)
         IN Result(s1, p.store, change,
                   p.effects \o <<EmitEff("currentChangeUpdated", change, s1)>>)

prevChange(s, st) ==
    IF s = Null THEN Result(s, st, Null, <<>>)
    ELSE LET pending == getPendingChanges(s)
         IN IF Len(pending) = 0 THEN Result(s, st, Null, <<>>)
            ELSE LET i1 == s.currentIndex - 1
                     s1 == [s EXCEPT !.currentIndex =
                                IF i1 < 0 THEN Len(pending) - 1 ELSE i1]
                     p == persistSession(s1, st)
                     change == At(pending, s1.currentIndex)
                 IN Result(s1, p.store, change,
                           p.effects \o <<EmitEff("currentChangeUpdated", change, s1)>>)

\* variant: the cursor becomes the position of the id among the pending
\* changes
setCurrentChange_PendingPosition(s, st, changeId) ==
    IF s = Null THEN Result(s, st, Undefined, <<>>)
    ELSE LET i == FirstIndex(s.changes, changeId)
         IN IF i = 0 THEN Result(s, st, Undefined, <<>>)
            ELSE LET j == FirstIndex(getPendingChanges(s), changeId)
                     s1 == [s EXCEPT !.currentIndex = j - 1]
                     p == persistSession(s1, st)
                 IN Result(s1, p.store, Undefined,
                           p.effects \o <<EmitEff("currentChangeUpdated", s1.changes[i], s1)>>)

\* setCurrentChange is called by the status menu and by the navigation tests
\* but its body is not part of the sources; modelled from the design text:
\* the cursor becomes the position of the id in the full change list
setCurrentChange(s, st, changeId) ==
    IF s = Null THEN Result(s, st, Undefined, <<>>)
    ELSE LET i == FirstIndex(s.changes, changeId)
         IN IF i = 0 THEN Result(s, st, Undefined, <<>>)
            ELSE LET s1 == [s EXCEPT !.currentIndex = i - 1]
                     p == persistSession(s1, st)
                 IN Result(s1, p.store, Undefined,
                           p.effects \o <<EmitEff("currentChangeUpdated", s1.changes[i], s1)>>)

addNote(s, st, note) ==
    IF s = Null THEN Result(s, st, Undefined, <<>>)
    ELSE LET s1 == [s EXCEPT !.notes = Append(s.notes, note)]
             p == persistSession(s1, st)
         IN Result(s1, p.store, Undefined,
                   p.effects \o <<EmitEff("noteAdded", note, s1),
                                  EmitEff("notesUpdated", Undefined, s1)>>)

resolveNote(s, st, noteId) ==
    IF s = Null THEN Result(s, st, Undefined, <<>>)
    ELSE LET i == FirstIndex(s.notes, noteId)
         IN IF i = 0 THEN Result(s, st, Undefined, <<>>)
            ELSE LET s1 == [s EXCEPT !.notes[i].status = "resolved"]
                     p == persistSession(s1, st)
                 IN Result(s1, p.store, Undefined,
                           p.effects \o <<EmitEff("noteResolved", s1.notes[i], s1),
                                          EmitEff("notesUpdated", Undefined, s1)>>)

updateNote_NoGenericEvent(s, st, noteId, content, now) ==
    IF s = Null THEN Result(s, st, Undefined, <<>>)
    ELSE LET i == FirstIndex(s.notes, noteId)
         IN IF i = 0 THEN Result(s, st, Undefined, <<>>)
            ELSE LET s1 == [s EXCEPT !.notes[i].content = content,
                                     !.notes[i].updatedAt = now]
                     p == persistSession(s1, st)
                 IN Result(s1, p.store, Undefined,
                           p.effects \o <<EmitEff("noteUpdated", s1.notes[i], s1)>>)

updateNote(s, st, noteId, content, now) ==
    IF s = Null THEN Result(s, st, Undefined, <<>>)
    ELSE LET i == FirstIndex(s.notes, noteId)
         IN IF i = 0 THEN Result(s, st, Undefined, <<>>)
            ELSE LET s1 == [s EXCEPT !.notes[i].content = content,
                                     !.notes[i].updatedAt = now]
                     p == persistSession(s1, st)
                 IN Result(s1, p.store, Undefined,
                           p.effects \o <<EmitEff("noteUpdated", s1.notes[i], s1),
                                          EmitEff("notesUpdated", Undefined, s1)>>)

deleteNote_AllWithId(s, st, noteId) ==
    IF s = Null THEN Result(s, st, Undefined, <<>>)
    ELSE LET index == FirstIndex(s.notes, noteId)
         IN IF index = 0 THEN Result(s, st, Undefined, <<>>)
            ELSE LET deleted == s.notes[index]
                     s1 == [s EXCEPT !.notes = SelectSeq(s.notes,
                                                LAMBDA n : n.id # noteId)]
                     p == persistSession(s1, st)
                 IN Result(s1, p.store, Undefined,
                           p.effects \o <<EmitEff("noteDeleted", deleted, s1),
                                          EmitEff("notesUpdated", Undefined, s1)>>)

\* notes.splice(index, 1) at the first note with the id
deleteNote(s, st, noteId) ==
    IF s = Null THEN Result(s, st, Undefined, <<>>)
    ELSE LET index == FirstIndex(s.notes, noteId)
         IN IF index = 0 THEN Result(s, st, Undefined, <<>>)
            ELSE LET deleted == s.notes[index]
                     s1 == [s EXCEPT !.notes = SubSeq(s.notes, 1, index - 1)
                                                  \o SubSeq(s.notes, index + 1,
                                                            Len(s.notes))]
                     p == persistSession(s1, st)
                 IN Result(s1, p.store, Undefined,
                           p.effects \o <<EmitEff("noteDeleted", deleted, s1),
                                          EmitEff("notesUpdated", Undefined, s1)>>)

getNotesForFile_AnyStatus(s, filePath) ==
    IF s = Null THEN <<>>
    ELSE SelectSeq(s.notes, LAMBDA n : n.filePath = filePath)

\* this.session?.notes.filter(...) || []
getNotesForFile(s, filePath) ==
    IF s = Null THEN <<>>
    ELSE SelectSeq(s.notes, LAMBDA n : n.filePath = filePath /\ n.status = "active")

getUnresolvedNotes(s) ==
    IF s = Null THEN <<>>
    ELSE SelectSeq(s.notes, LAMBDA n : n.status = "active")

\* uri.fsPath.replace(/\\/g, '/'): every backslash becomes a slash
ReplaceBackslashes(path) ==
    [i \in 1 .. Len(path) |-> IF path[i] = "\\" THEN "/" ELSE path[i]]

\* text.split('\n').length: one more than the number of line breaks
RECURSIVE SplitLength(_)
SplitLength(text) ==
    IF text = <<>> THEN 1
    ELSE (IF Head(text) = "\n" THEN 1 ELSE 0) + SplitLength(Tail(text))

\* variant: an anchor on the last line of the edit is shifted too
ApplyEdit_AtOrAfter(acc, change, fileChanges, fileNotes) ==
    LET editStartLine == change.range.start.line + 1
        editEndLine == change.range.end.line + 1
        linesRemoved == editEndLine - editStartLine + 1
        linesAdded == SplitLength(change.text)
        lineDelta == linesAdded - linesRemoved
        shiftedChanges == {p \in fileChanges :
                              /\ acc.changes[p].status = "pending"
                              /\ acc.changes[p].newLineStart >= editEndLine}
        shiftedNotes == {q \in fileNotes : acc.notes[q].line > editEndLine}
    IN [changes |-> [p \in 1 .. Len(acc.changes) |->
                        IF p \in shiftedChanges
                        THEN [acc.changes[p] EXCEPT !.newLineStart = @ + lineDelta]
                        ELSE acc.changes[p]],
        notes |-> [q \in 1 .. Len(acc.notes) |->
                      IF q \in shiftedNotes
                      THEN [acc.notes[q] EXCEPT !.line = @ + lineDelta]
                      ELSE acc.notes[q]],
        changesUpdated |-> acc.changesUpdated \/ shiftedChanges # {},
        notesUpdated |-> acc.notesUpdated \/ shiftedNotes # {}]

\* variant: resolved changes are shifted like pending ones
ApplyEdit_AnyStatus(acc, change, fileChanges, fileNotes) ==
    LET editStartLine == change.range.start.line + 1
        editEndLine == change.range.end.line + 1
        linesRemoved == editEndLine - editStartLine + 1
        linesAdded == SplitLength(change.text)
        lineDelta == linesAdded - linesRemoved
        shiftedChanges == {p \in fileChanges :
                              acc.changes[p].newLineStart > editEndLine}
        shiftedNotes == {q \in fileNotes : acc.notes[q].line > editEndLine}
    IN [changes |-> [p \in 1 .. Len(acc.changes) |->
                        IF p \in shiftedChanges
                        THEN [acc.changes[p] EXCEPT !.newLineStart = @ + lineDelta]
                        ELSE acc.changes[p]],
        notes |-> [q \in 1 .. Len(acc.notes) |->
                      IF q \in shiftedNotes
                      THEN [acc.notes[q] EXCEPT !.line = @ + lineDelta]
                      ELSE acc.notes[q]],
        changesUpdated |-> acc.changesUpdated \/ shiftedChanges # {},
        notesUpdated |-> acc.notesUpdated \/ shiftedNotes # {}]

\* an ApplyEdit that counts the line breaks of the replacement text, not its
\* segments
ApplyEdit_CountsLineBreaks(acc, change, fileChanges, fileNotes) ==
    LET editStartLine == change.range.start.line + 1
        editEndLine == change.range.end.line + 1
        linesRemoved == editEndLine - editStartLine + 1
        linesAdded == SplitLength(change.text) - 1
        lineDelta == linesAdded - linesRemoved
        shiftedChanges == {p \in fileChanges :
                              /\ acc.changes[p].status = "pending"
                              /\ acc.changes[p].newLineStart > editEndLine}
        shiftedNotes == {q \in fileNotes : acc.notes[q].line > editEndLine}
    IN [changes |-> [p \in 1 .. Len(acc.changes) |->
                        IF p \in shiftedChanges
                        THEN [acc.changes[p] EXCEPT !.newLineStart = @ + lineDelta]
                        ELSE acc.changes[p]],
        notes |-> [q \in 1 .. Len(acc.notes) |->
                      IF q \in shiftedNotes
                      THEN [acc.notes[q] EXCEPT !.line = @ + lineDelta]
                      ELSE acc.notes[q]],
        changesUpdated |-> acc.changesUpdated \/ shiftedChanges # {},
        notesUpdated |-> acc.notesUpdated \/ shiftedNotes # {}]

\* the body of the loop over contentChanges: acc holds the change list, the
\* note list and the two flags; fileChanges and fileNotes are the positions
\* of the entries selected before the loop
ApplyEdit(acc, change, fileChanges, fileNotes) ==
    LET editStartLine == change.range.start.line + 1
        editEndLine == change.range.end.line + 1
        linesRemoved == editEndLine - editStartLine + 1
        linesAdded == SplitLength(change.text)
        lineDelta == linesAdded - linesRemoved
        shiftedChanges == {p \in fileChanges :
                              /\ acc.changes[p].status = "pending"
                              /\ acc.changes[p].newLineStart > editEndLine}
        shiftedNotes == {q \in fileNotes : acc.notes[q].line > editEndLine}
    IN [changes |-> [p \in 1 .. Len(acc.changes) |->
                        IF p \in shiftedChanges
                        THEN [acc.changes[p] EXCEPT !.newLineStart = @ + lineDelta]
                        ELSE acc.changes[p]],
        notes |-> [q \in 1 .. Len(acc.notes) |->
                      IF q \in shiftedNotes
                      THEN [acc.notes[q] EXCEPT !.line = @ + lineDelta]
                      ELSE acc.notes[q]],
        changesUpdated |-> acc.changesUpdated \/ shiftedChanges # {},
        notesUpdated |-> acc.notesUpdated \/ shiftedNotes # {}]

RECURSIVE ApplyEdits(_, _, _, _)
ApplyEdits(acc, contentChanges, fileChanges, fileNotes) ==
    IF contentChanges = <<>> THEN acc
    ELSE ApplyEdits(ApplyEdit(acc, Head(contentChanges), fileChanges, fileNotes),
                    Tail(contentChanges), fileChanges, fileNotes)

\* variant: a file without changes is skipped even when it holds notes
updateLineMapping_ChangesRequired(s, st, uri, contentChanges) ==
    IF s = Null THEN Result(s, st, Undefined, <<>>)
    ELSE LET filePath == ReplaceBackslashes(uri.fsPath)
             fileChanges == {p \in 1 .. Len(s.changes) :
                                s.changes[p].filePath = filePath}
             fileNotes == {q \in 1 .. Len(s.notes) :
                              /\ s.notes[q].filePath = filePath
                              /\ s.notes[q].status = "active"}
         IN IF fileChanges = {}
            THEN Result(s, st, Undefined, <<>>)
            ELSE LET acc == ApplyEdits([changes |-> s.changes, notes |-> s.notes,
                                        changesUpdated |-> FALSE,
                                        notesUpdated |-> FALSE],
                                       contentChanges, fileChanges, fileNotes)
                     s1 == [s EXCEPT !.changes = acc.changes, !.notes = acc.notes]
                 IN IF acc.changesUpdated \/ acc.notesUpdated
                    THEN LET p == persistSession(s1, st)
                         IN Result(s1, p.store, Undefined,
                                   p.effects
                                     \o (IF acc.changesUpdated
                                         THEN <<EmitEff("lineMappingUpdated", Undefined, s1)>>
                                         ELSE <<>>)
                                     \o (IF acc.notesUpdated
                                         THEN <<EmitEff("notesUpdated", Undefined, s1)>>
                                         ELSE <<>>))
                    ELSE Result(s1, st, Undefined, <<>>)

updateLineMapping(s, st, uri, contentChanges) ==
    IF s = Null THEN Result(s, st, Undefined, <<>>)
    ELSE LET filePath == ReplaceBackslashes(uri.fsPath)
             fileChanges == {p \in 1 .. Len(s.changes) :
                                s.changes[p].filePath = filePath}
             fileNotes == {q \in 1 .. Len(s.notes) :
                              /\ s.notes[q].filePath = filePath
                              /\ s.notes[q].status = "active"}
         IN IF fileChanges = {} /\ fileNotes = {}
            THEN Result(s, st, Undefined, <<>>)
            ELSE LET acc == ApplyEdits([changes |-> s.changes, notes |-> s.notes,
                                        changesUpdated |-> FALSE,
                                        notesUpdated |-> FALSE],
                                       contentChanges, fileChanges, fileNotes)
                     s1 == [s EXCEPT !.changes = acc.changes, !.notes = acc.notes]
                 IN IF acc.changesUpdated \/ acc.notesUpdated
                    THEN LET p == persistSession(s1, st)
                         IN Result(s1, p.store, Undefined,
                                   p.effects
                                     \o (IF acc.changesUpdated
                                         THEN <<EmitEff("lineMappingUpdated", Undefined, s1)>>
                                         ELSE <<>>)
                                     \o (IF acc.notesUpdated
                                         THEN <<EmitEff("notesUpdated", Undefined, s1)>>
                                         ELSE <<>>))
                    ELSE Result(s1, st, Undefined, <<>>)

---------------------------------------------------------------------------
(* The diff parser (parseDiffOutput, parseFileDiff, parseHunkContent,      *)
(* flattenHunks). A text is the sequence of its lines and a line the       *)
(* sequence of its parts, each part a string of characters; a path is a    *)
(* sequence of parts too.                                                  *)

\* line.startsWith(c)
StartsWith(line, c) == Len(line) >= 1 /\ line[1] = c

\* parseInt(digits, 10) on the numbers that occur in the hunk headers
ParseInt == [d \in {"0", "1", "3", "4", "62"} |->
                CASE d = "0" -> 0 [] d = "1" -> 1 [] d = "3" -> 3
                  [] d = "4" -> 4 [] d = "62" -> 62]

\* \d+
IsDigits(part) == part \in DOMAIN ParseInt

\* line.match(/^@@ -(\d+)(?:,(\d+))? \+(\d+)(?:,(\d+))? @@/): the four
\* groups, an omitted count being undefined, or Null when there is no match
HunkMatch(line) ==
    IF ~(Len(line) >= 3 /\ line[1] = "@@" /\ line[2] = " -" /\ IsDigits(line[3]))
    THEN Null
    ELSE LET oldCounted == Len(line) >= 5 /\ line[4] = "," /\ IsDigits(line[5])
             n == IF oldCounted THEN 6 ELSE 4
         IN IF ~(Len(line) >= n + 1 /\ line[n] = " +" /\ IsDigits(line[n + 1]))
            THEN Null
            ELSE LET newCounted == /\ Len(line) >= n + 3
                                   /\ line[n + 2] = ","
                                   /\ IsDigits(line[n + 3])
                     m == IF newCounted THEN n + 4 ELSE n + 2
                 IN IF ~(Len(line) >= m /\ line[m] = " @@") THEN Null
                    ELSE [kind |-> "match",
                          g1 |-> line[3],
                          g2 |-> IF oldCounted THEN line[5] ELSE "undefined",
                          g3 |-> line[n + 1],
                          g4 |-> IF newCounted THEN line[n + 3] ELSE "undefined"]

\* parseInt(group || '1', 10)
ParseIntOr1(group) == IF group = "undefined" THEN ParseInt["1"] ELSE ParseInt[group]

RunEnd_OneLine(lines, i, c) ==
    IF i <= Len(lines) /\ StartsWith(lines[i], c) THEN i + 1 ELSE i

\* end (exclusive) of the run of lines starting with c that begins at i
RECURSIVE RunEnd(_, _, _)
RunEnd(lines, i, c) ==
    IF i <= Len(lines) /\ StartsWith(lines[i], c) THEN RunEnd(lines, i + 1, c) ELSE i

StripRun_KeepPrefix(lines, i, j) == [k \in 1 .. (j - i) |-> lines[i + k - 1]]

\* lines[k].substring(1) for the lines i .. j-1
StripRun(lines, i, j) == [k \in 1 .. (j - i) |-> Tail(lines[i + k - 1])]

\* generateChangeId(): the id of the n-th change made during one parse
generateChangeId(n) == ChangeIdOf(1, n)

DeleteRunChange_EqualCounts(deletedLines, addedLines, oldLineNum, newLineNum, absolutePath, id) ==
    [id |-> id,
     type |-> IF Len(addedLines) > 0 THEN "modify" ELSE "delete",
     filePath |-> absolutePath,
     oldLineStart |-> oldLineNum,
     oldLineCount |-> Len(deletedLines),
     newLineStart |-> newLineNum,
     newLineCount |-> IF Len(addedLines) > 0 THEN Len(deletedLines) ELSE 0,
     oldContent |-> deletedLines,
     newContent |-> addedLines,
     status |-> "pending"]

\* parseHunkContent: the change pushed for a run of deleted lines and
\* the run of added lines that follows it
DeleteRunChange(deletedLines, addedLines, oldLineNum, newLineNum, absolutePath, id) ==
    IF Len(addedLines) > 0
    THEN [id |-> id,
          type |-> "modify",
          filePath |-> absolutePath,
          oldLineStart |-> oldLineNum,
          oldLineCount |-> Len(deletedLines),
          newLineStart |-> newLineNum,
          newLineCount |-> Len(addedLines),
          oldContent |-> deletedLines,
          newContent |-> addedLines,
          status |-> "pending"]
    ELSE [id |-> id,
          type |-> "delete",
          filePath |-> absolutePath,
          oldLineStart |-> oldLineNum,
          oldLineCount |-> Len(deletedLines),
          newLineStart |-> newLineNum,
          newLineCount |-> 0,
          oldContent |-> deletedLines,
          newContent |-> <<>>,
          status |-> "pending"]

AddRunChange_CountsBothSides(addedLines, oldLineNum, newLineNum, absolutePath, id) ==
    [id |-> id,
     type |-> "add",
     filePath |-> absolutePath,
     oldLineStart |-> oldLineNum,
     oldLineCount |-> Len(addedLines),
     newLineStart |-> newLineNum,
     newLineCount |-> Len(addedLines),
     oldContent |-> <<>>,
     newContent |-> addedLines,
     status |-> "pending"]

\* parseHunkContent: the change pushed for a run of added lines
AddRunChange(addedLines, oldLineNum, newLineNum, absolutePath, id) ==
    [id |-> id,
     type |-> "add",
     filePath |-> absolutePath,
     oldLineStart |-> oldLineNum,
     oldLineCount |-> 0,
     newLineStart |-> newLineNum,
     newLineCount |-> Len(addedLines),
     oldContent |-> <<>>,
     newContent |-> addedLines,
     status |-> "pending"]

\* the while loop of parseHunkContent at position i (counted from 1); made
\* is the number of ids generated before this hunk
RECURSIVE HunkLoop(_, _, _, _, _, _, _)
HunkLoop(lines, i, oldLineNum, newLineNum, absolutePath, made, changes) ==
    IF i > Len(lines) THEN changes
    ELSE IF StartsWith(lines[i], " ")
    THEN HunkLoop(lines, i + 1, oldLineNum + 1, newLineNum + 1,
                  absolutePath, made, changes)
    ELSE IF StartsWith(lines[i], "-")
    THEN LET j == RunEnd(lines, i, "-")
             k == RunEnd(lines, j, "+")
             change == DeleteRunChange(StripRun(lines, i, j), StripRun(lines, j, k),
                                       oldLineNum, newLineNum, absolutePath,
                                       generateChangeId(made + Len(changes) + 1))
         IN HunkLoop(lines, k, oldLineNum + (j - i), newLineNum + (k - j),
                     absolutePath, made, Append(changes, change))
    ELSE IF StartsWith(lines[i], "+")
    THEN LET k == RunEnd(lines, i, "+")
             change == AddRunChange(StripRun(lines, i, k),
                                    oldLineNum, newLineNum, absolutePath,
                                    generateChangeId(made + Len(changes) + 1))
         IN HunkLoop(lines, k, oldLineNum, newLineNum + (k - i),
                     absolutePath, made, Append(changes, change))
    ELSE HunkLoop(lines, i + 1, oldLineNum, newLineNum, absolutePath, made, changes)

parseHunkContent_CursorsFromOne(lines, oldStart, newStart, absolutePath, made) ==
    HunkLoop(lines, 1, 1, 1, absolutePath, made, <<>>)

parseHunkContent(lines, oldStart, newStart, absolutePath, made) ==
    HunkLoop(lines, 1, oldStart, newStart, absolutePath, made, <<>>)

\* helpers.ts: the extensions isTextFile takes for binary files
binaryExtensions ==
    {<<".", "png">>, <<".", "jpg">>, <<".", "jpeg">>, <<".", "gif">>,
     <<".", "bmp">>, <<".", "ico">>, <<".", "webp">>, <<".", "pdf">>,
     <<".", "doc">>, <<".", "docx">>, <<".", "xls">>, <<".", "xlsx">>,
     <<".", "ppt">>, <<".", "pptx">>, <<".", "zip">>, <<".", "rar">>,
     <<".", "7z">>, <<".", "tar">>, <<".", "gz">>, <<".", "exe">>,
     <<".", "dll">>, <<".", "so">>, <<".", "dylib">>, <<".", "mp3">>,
     <<".", "mp4">>, <<".", "avi">>, <<".", "mov">>, <<".", "wav">>,
     <<".", "ttf">>, <<".", "otf">>, <<".", "woff">>, <<".", "woff2">>,
     <<".", "bin">>, <<".", "dat">>, <<".", "db">>, <<".", "sqlite">>}

\* String.prototype.toLowerCase on one part of a path
ToLowerCase(part) ==
    CASE part = "PNG" -> "png"
      [] part = "Image" -> "image"
      [] OTHER -> part

\* path.lastIndexOf('.'), counted from 1; 0 when the path holds no dot
LastIndexOfDot(path) ==
    LET dots == {i \in 1 .. Len(path) : path[i] = "."}
    IN IF dots = {} THEN 0 ELSE CHOOSE i \in dots : \A j \in dots : j <= i

\* helpers.ts isTextFile: the lower-cased text from the last dot on (the
\* whole path when it holds no dot) is not a binary extension
isTextFile(filePath) ==
    LET lower == [i \in 1 .. Len(filePath) |-> ToLowerCase(filePath[i])]
        from == IF LastIndexOfDot(filePath) = 0 THEN 1 ELSE LastIndexOfDot(filePath)
        ext == SubSeq(lower, from, Len(lower))
    IN ext \notin binaryExtensions

\* lines[0].match(/^a\/(.+?) b\/(.+?)$/)
HeaderMatch(line) ==
    IF /\ Len(line) = 4
       /\ line[1] = "a/" /\ Len(line[2]) >= 1
       /\ line[3] = " b/" /\ Len(line[4]) >= 1
    THEN [kind |-> "match", g1 |-> line[2], g2 |-> line[4]]
    ELSE Null

\* lines.slice(1, 10) holds a line that starts with one of the prefixes
MetaLine(lines, prefixes) ==
    \E i \in 2 .. 10 : i <= Len(lines) /\ \E p \in prefixes : StartsWith(lines[i], p)

\* a FlushHunk that keeps only the changes of the hunk it has just parsed
FlushHunk_ReplacesChanges(st, absolutePath, made) ==
    IF st.inHunk /\ Len(st.currentHunkLines) > 0
    THEN parseHunkContent(st.currentHunkLines, st.hunkOldStart,
                          st.hunkNewStart, absolutePath,
                          made + Len(st.changes))
    ELSE st.changes

\* parseFileDiff: the hunk collected so far is handed to parseHunkContent
FlushHunk(st, absolutePath, made) ==
    IF st.inHunk /\ Len(st.currentHunkLines) > 0
    THEN st.changes \o parseHunkContent(st.currentHunkLines, st.hunkOldStart,
                                        st.hunkNewStart, absolutePath,
                                        made + Len(st.changes))
    ELSE st.changes

\* parseFileDiff: the loop over the lines of the section, first line included
RECURSIVE FileLoop(_, _, _, _, _)
FileLoop(lines, i, st, absolutePath, made) ==
    IF i > Len(lines) THEN FlushHunk(st, absolutePath, made)
    ELSE LET line == lines[i]
             hunkMatch == HunkMatch(line)
         IN IF hunkMatch # Null
            THEN FileLoop(lines, i + 1,
                          [changes |-> FlushHunk(st, absolutePath, made),
                           hunkOldStart |-> ParseInt[hunkMatch.g1],
                           hunkOldCount |-> ParseIntOr1(hunkMatch.g2),
                           hunkNewStart |-> ParseInt[hunkMatch.g3],
                           hunkNewCount |-> ParseIntOr1(hunkMatch.g4),
                           currentHunkLines |-> <<>>,
                           inHunk |-> TRUE],
                          absolutePath, made)
            ELSE IF /\ st.inHunk
                    /\ \/ StartsWith(line, "+")
                       \/ StartsWith(line, "-")
                       \/ StartsWith(line, " ")
            THEN FileLoop(lines, i + 1,
                          [st EXCEPT !.currentHunkLines = Append(@, line)],
                          absolutePath, made)
            ELSE FileLoop(lines, i + 1, st, absolutePath, made)

\* parseFileDiff(fileDiff, workspaceRoot): Null, or the hunk of the section;
\* made is the number of ids generated before this section
parseFileDiff(fileDiff, workspaceRoot, made) ==
    LET lines == fileDiff
        headerMatch == HeaderMatch(lines[1])
    IN IF headerMatch = Null THEN Null
       ELSE LET oldPath == headerMatch.g1
                newPath == headerMatch.g2
            IN IF ~isTextFile(newPath) THEN Null
               ELSE LET isNew == MetaLine(lines, {"new file mode"})
                        isDeleted == MetaLine(lines, {"deleted file mode"})
                        isRenamed == MetaLine(lines, {"rename from", "similarity index"})
                        absolutePath ==
                            ReplaceBackslashes(workspaceRoot) \o <<"/">> \o newPath
                    IN [kind |-> "hunk",
                        filePath |-> newPath,
                        isNew |-> isNew,
                        isDeleted |-> isDeleted,
                        isRenamed |-> isRenamed,
                        oldFilePath |-> IF isRenamed
                                        THEN [kind |-> "path", value |-> oldPath]
                                        ELSE Undefined,
                        changes |-> FileLoop(lines, 1,
                                             [changes |-> <<>>,
                                              hunkOldStart |-> 0,
                                              hunkOldCount |-> 0,
                                              hunkNewStart |-> 0,
                                              hunkNewCount |-> 0,
                                              currentHunkLines |-> <<>>,
                                              inHunk |-> FALSE],
                                             absolutePath, made)]

\* s.trim() is empty: every line of the text is empty or white space
IsBlankText(lines) ==
    \A i \in 1 .. Len(lines) :
        Len(lines[i]) = 0 \/ (Len(lines[i]) = 1 /\ lines[i][1] = " ")

\* diffOutput.split(/^diff --git /m): a line that starts with the separator
\* ends the piece before it, which keeps its final line break, and opens the
\* next piece with the rest of the line
RECURSIVE SplitSections(_, _, _, _)
SplitSections(lines, i, piece, pieces) ==
    IF i > Len(lines) THEN Append(pieces, piece)
    ELSE IF StartsWith(lines[i], "diff --git ")
    THEN SplitSections(lines, i + 1, <<Tail(lines[i])>>,
                       Append(pieces, Append(piece, <<>>)))
    ELSE SplitSections(lines, i + 1, Append(piece, lines[i]), pieces)

flattenHunks_FirstOnly(hunks) ==
    IF hunks = <<>> THEN <<>> ELSE hunks[1].changes

\* flattenHunks(hunks)
RECURSIVE flattenHunks(_)
flattenHunks(hunks) ==
    IF hunks = <<>> THEN <<>>
    ELSE hunks[1].changes \o flattenHunks(Tail(hunks))

HasChanges_AnyHunk(hunk) == hunk # Null

\* parseDiffOutput: hunk && hunk.changes.length > 0
HasChanges(hunk) == hunk # Null /\ Len(hunk.changes) > 0

\* parseDiffOutput: the loop over the sections that are not blank
RECURSIVE SectionLoop(_, _, _, _)
SectionLoop(fileDiffs, i, workspaceRoot, hunks) ==
    IF i > Len(fileDiffs) THEN hunks
    ELSE LET hunk == parseFileDiff(fileDiffs[i], workspaceRoot,
                                   Len(flattenHunks(hunks)))
         IN SectionLoop(fileDiffs, i + 1, workspaceRoot,
                        IF HasChanges(hunk) THEN Append(hunks, hunk) ELSE hunks)

\* parseDiffOutput(diffOutput, workspaceRoot)
parseDiffOutput(diffOutput, workspaceRoot) ==
    LET fileDiffs == SelectSeq(SplitSections(diffOutput, 1, <<>>, <<>>),
                               LAMBDA piece : ~IsBlankText(piece))
    IN SectionLoop(fileDiffs, 1, workspaceRoot, <<>>)

---------------------------------------------------------------------------
(* The state machine *)

\* an invocation: the operation, its id argument (0 when it has none) and
\* whether a session was active when it was invoked
Op(name, arg) == [name |-> name, arg |-> arg, hadSession |-> session # Null]

\* a startSession invocation also records the list length and the clock
StartOp(k, n, now) ==
    [name |-> "startSession", arg |-> k, hadSession |-> session # Null,
     n |-> n, now |-> now]

\* no revert edit has been applied to any document
Untouched == [id \in {ChangeIdOf(1, p) : p \in 1 .. MaxChanges} |-> 0]

\* the outcome r of the invocation op becomes the next state
Apply(op, r) ==
    /\ session' = r.session
    /\ store' = r.store
    /\ ret' = r.ret
    /\ effects' = r.effects
    /\ lastOp' = op
    /\ UNCHANGED <<commands, document>>

\* a manager is constructed over an empty workspace state
Init ==
    /\ session = Null
    /\ store = Null
    /\ lastOp = [name |-> "construct", arg |-> 0, hadSession |-> FALSE]
    /\ ret = Undefined
    /\ effects = <<>>
    /\ commands = <<>>
    /\ document = Untouched

\* the extension host restarts: a new manager is constructed over the store
Construct == Apply(Op("construct", 0), restoreSession(store))

StartSession ==
    \E k \in Commits, n \in 0 .. MaxChanges, now \in Times :
        Apply(StartOp(k, n, now),
              startSession(session, store, CommitInfo(k), ChangeList(k, n), now))

EndSession == Apply(Op("endSession", 0), endSession(session, store))

AcceptChange ==
    \E id \in ChangeIds(session) : Apply(Op("acceptChange", id), acceptChange(session, store, id))

RejectChange ==
    \E id \in ChangeIds(session) : Apply(Op("rejectChange", id), rejectChange(session, store, id))

NextChange == Apply(Op("nextChange", 0), nextChange(session, store))

PrevChange == Apply(Op("prevChange", 0), prevChange(session, store))

SetCurrentChange ==
    \E id \in ChangeIds(session) :
        Apply(Op("setCurrentChange", id), setCurrentChange(session, store, id))

\* the note command creates a note with a fresh id; a session holds at most
\* MaxNotes notes
AddNote ==
    \E id \in NoteIds :
        /\ session # Null => /\ Len(session.notes) < MaxNotes
                             /\ id = 201 + Len(session.notes)
        /\ session = Null => id = 201
        /\ Apply(Op("addNote", id), addNote(session, store, MkNote(id, PathOf("fileB"), 0)))

\* the operations whose code is in the sources
NextCode ==
    \/ Construct
    \/ StartSession
    \/ EndSession
    \/ AcceptChange
    \/ RejectChange
    \/ NextChange
    \/ PrevChange
    \/ AddNote

Next ==
    \/ NextCode
    \/ SetCurrentChange

Spec == Init /\ [][Next]_vars

SpecCode == Init /\ [][NextCode]_vars

\* the jump-and-resolve scenarios: sessions over longer change lists, driven
\* by the status menu (jump to a change) and the accept/reject commands
StartLongSession ==
    \E k \in Commits, n \in 0 .. MaxLongChanges :
        Apply(StartOp(k, n, 0),
              startSession(session, store, CommitInfo(k), ChangeList(k, n), 0))

NextJump ==
    \/ StartLongSession
    \/ AcceptChange
    \/ RejectChange
    \/ SetCurrentChange

SpecJump == Init /\ [][NextJump]_vars

\* the review loop: one session whose changes are walked through and resolved
StartCursorSession ==
    /\ session = Null
    /\ \E n \in 1 .. MaxChanges :
          Apply(StartOp(1, n, 0),
                startSession(session, store, CommitInfo(1), ChangeList(1, n), 0))

NextCursor ==
    \/ StartCursorSession
    \/ AcceptChange
    \/ RejectChange
    \/ NextChange
    \/ PrevChange

SpecCursor == Init /\ [][NextCursor]_vars

---------------------------------------------------------------------------
(* The reject commands (src/src/commands/statusBarActions.ts). A command  *)
(* runs until it reaches an await; what follows the await is a later step, *)
(* and the steps of other commands and handlers may come in between.       *)

\* the lengths of the change lists of the reject scenarios: one change in
\* fileA, or that one and two more in fileB
RejectLengths == {1, 3}

\* a command that is suspended at an await: pc is the await ("confirming"
\* the dialog of rejectAll, "reverting" the awaits of applyRevert before the
\* edit is applied, "saving" document.save(), "finishing" the end of the
\* progress of rejectAll), change the
\* change whose revert is under way, queue the changes still to revert and
\* failed the number of reverts that failed (both of rejectAll only)
Command(name, pc, change, queue, failed) ==
    [name |-> name, pc |-> pc, change |-> change, queue |-> queue, failed |-> failed]

RemoveAt(seq, i) == SubSeq(seq, 1, i - 1) \o SubSeq(seq, i + 1, Len(seq))

\* checkAndAutoEndSession: the session is ended when nothing is pending
checkAndAutoEndSession(s, st) ==
    LET stats == getSessionStats(s)
    IN IF stats.pending = 0 /\ s # Null
       THEN LET e == endSession(s, st)
            IN Result(e.session, e.store, BoolVal(TRUE), e.effects)
       ELSE Result(s, st, BoolVal(FALSE), <<>>)

\* rejectChangeById after applyRevert has returned: the change is marked
\* and the session ended when nothing is left
rejectChangeByIdMark(s, st, changeId) ==
    LET r == rejectChange(s, st, changeId)
        e == checkAndAutoEndSession(r.session, r.store)
    IN Result(e.session, e.store, Undefined, r.effects \o e.effects)

\* a rejectAll that looks for the end of the session after failures too
rejectAllFinish_AlwaysChecks(s, st, failed) ==
    LET e == checkAndAutoEndSession(s, st)
    IN Result(e.session, e.store, Undefined, e.effects)

\* rejectAll after its loop: the session is only looked at when no revert
\* failed
rejectAllFinish(s, st, failed) ==
    IF failed > 0 THEN Result(s, st, Undefined, <<>>)
    ELSE LET e == checkAndAutoEndSession(s, st)
         IN Result(e.session, e.store, Undefined, e.effects)

\* [...changes].sort((a, b) => b.newLineStart - a.newLineStart)
RECURSIVE SortByLineDescending(_)
SortByLineDescending(changes) ==
    IF changes = <<>> THEN <<>>
    ELSE LET top == CHOOSE i \in 1 .. Len(changes) :
                       /\ \A j \in 1 .. Len(changes) :
                             changes[j].newLineStart <= changes[i].newLineStart
                       /\ \A j \in 1 .. (i - 1) :
                             changes[j].newLineStart < changes[i].newLineStart
         IN <<changes[top]>> \o SortByLineDescending(RemoveAt(changes, top))

\* rejectAll: the pending changes file by file, the files in the order of
\* their first change, the changes of a file from the bottom up
RECURSIVE RevertOrder(_)
RevertOrder(pending) ==
    IF pending = <<>> THEN <<>>
    ELSE LET filePath == Head(pending).filePath
         IN SortByLineDescending(
                SelectSeq(pending, LAMBDA c : c.filePath = filePath))
              \o RevertOrder(SelectSeq(pending, LAMBDA c : c.filePath # filePath))

StartRejectSession ==
    /\ session = Null
    /\ lastOp.name = "construct"
    /\ \E n \in RejectLengths :
          Apply(StartOp(1, n, 0),
                startSession(session, store, CommitInfo(1), ChangeList(1, n), 0))

\* a command step that leaves the session manager alone
CommandStep(op) ==
    /\ lastOp' = op
    /\ ret' = Undefined
    /\ effects' = <<>>
    /\ UNCHANGED <<session, store>>

\* a command step that ends with the outcome r of session manager calls
ManagerStep(op, r) ==
    /\ lastOp' = op
    /\ ret' = r.ret
    /\ effects' = r.effects
    /\ session' = r.session
    /\ store' = r.store

\* rejectChangeById up to its first await: the change must exist and be
\* pending
BeginRejectById(op, changeId) ==
    LET change == getChangeById(session, changeId)
    IN /\ Len(commands) < MaxCommands
       /\ commands' = IF change = Null \/ change.status # "pending"
                      THEN commands
                      ELSE Append(commands,
                                  Command("rejectChangeById", "reverting", change, <<>>, 0))
       /\ CommandStep(op)
       /\ UNCHANGED document

\* the command rejectChange: the current change is handed to rejectChangeById
InvokeRejectChange ==
    LET currentChange == getCurrentChange(session)
    IN IF currentChange = Null
       THEN /\ CommandStep(Op("rejectChangeCommand", 0))
            /\ UNCHANGED <<commands, document>>
       ELSE BeginRejectById(Op("rejectChangeCommand", currentChange.id),
                            currentChange.id)

\* the command rejectChangeById, invoked from the lens of any change
InvokeRejectChangeById ==
    \E changeId \in DOMAIN document :
        BeginRejectById(Op("rejectChangeByIdCommand", changeId), changeId)

\* the command rejectAll up to its confirmation dialog
InvokeRejectAll ==
    LET pending == getPendingChanges(session)
    IN /\ Len(commands) < MaxCommands
       /\ commands' = IF session = Null \/ Len(pending) = 0
                      THEN commands
                      ELSE Append(commands,
                                  Command("rejectAll", "confirming", Null, pending, 0))
       /\ CommandStep(Op("rejectAllCommand", 0))
       /\ UNCHANGED document

\* rejectAll: the dialog is answered; on 'Reject All' the first revert begins
ConfirmRejectAll ==
    \E i \in 1 .. Len(commands), confirm \in {"Reject All", "Cancel"} :
        /\ commands[i].pc = "confirming"
        /\ commands' =
              IF confirm # "Reject All" THEN RemoveAt(commands, i)
              ELSE LET order == RevertOrder(commands[i].queue)
                   IN [commands EXCEPT ![i] =
                          Command("rejectAll", "reverting", Head(order), Tail(order), 0)]
        /\ CommandStep(Op("rejectAllConfirm", 0))
        /\ UNCHANGED document

\* rejectAll goes on to the next change of its loop, or leaves the loop
NextRevert(command, failed) ==
    IF command.queue = <<>>
    THEN Command("rejectAll", "finishing", Null, <<>>, failed)
    ELSE Command("rejectAll", "reverting", Head(command.queue), Tail(command.queue), failed)

\* applyRevert has thrown: rejectChangeById reports it and returns,
\* rejectAll counts it and goes on
RevertFailed(i) ==
    /\ commands' = IF commands[i].name = "rejectChangeById"
                   THEN RemoveAt(commands, i)
                   ELSE [commands EXCEPT ![i] = NextRevert(@, @.failed + 1)]
    /\ CommandStep(Op("revertFailed", commands[i].change.id))
    /\ UNCHANGED document

\* applyRevert up to the answer of workspace.applyEdit: the document is
\* opened and shown and the edit applied to it, after which the document is
\* saved; or one of the three fails and applyRevert throws
ApplyRevert ==
    \E i \in 1 .. Len(commands), success \in BOOLEAN :
        /\ commands[i].pc = "reverting"
        /\ IF success
           THEN /\ document' = [document EXCEPT ![commands[i].change.id] = @ + 1]
                /\ commands' = [commands EXCEPT ![i].pc = "saving"]
                /\ CommandStep(Op("applyRevert", commands[i].change.id))
           ELSE RevertFailed(i)

\* applyRevert has returned: the change is marked rejected; rejectChangeById
\* then looks for the end of the session, rejectAll goes on with its loop
MarkRejected ==
    \E i \in 1 .. Len(commands) :
        /\ commands[i].pc = "saving"
        /\ IF commands[i].name = "rejectChangeById"
           THEN /\ commands' = RemoveAt(commands, i)
                /\ ManagerStep(Op("markRejected", commands[i].change.id),
                               rejectChangeByIdMark(session, store, commands[i].change.id))
           ELSE /\ commands' = [commands EXCEPT ![i] = NextRevert(@, @.failed)]
                /\ ManagerStep(Op("markRejected", commands[i].change.id),
                               rejectChange(session, store, commands[i].change.id))
        /\ UNCHANGED document

\* rejectAll after its loop
FinishRejectAll ==
    \E i \in 1 .. Len(commands) :
        /\ commands[i].pc = "finishing"
        /\ commands' = RemoveAt(commands, i)
        /\ ManagerStep(Op("rejectAllFinish", commands[i].failed),
                       rejectAllFinish(session, store, commands[i].failed))
        /\ UNCHANGED document

NextReject ==
    \/ StartRejectSession
    \/ InvokeRejectChange
    \/ InvokeRejectChangeById
    \/ InvokeRejectAll
    \/ ConfirmRejectAll
    \/ ApplyRevert
    \/ MarkRejected
    \/ FinishRejectAll

SpecReject == Init /\ [][NextReject]_vars

\* the document-edit scenarios: the files of a session are edited while its
\* changes are being resolved (SpecMap) or while notes are being taken and
\* resolved (SpecNotes)
StartMapSession ==
    \E n \in MapLengths :
        Apply(StartOp(1, n, 0),
              startSession(session, store, CommitInfo(1), ChangeList(1, n), 0))

StartNotedSession ==
    \E n \in NotedLengths :
        Apply(StartOp(1, n, 0),
              startSession(session, store, CommitInfo(1), ChangeList(1, n), 0))

ResolveNote ==
    \E id \in NoteIds :
        Apply(Op("resolveNote", id), resolveNote(session, store, id))

\* every anchor of the session is a line of the document
AnchorsWithin(s) ==
    s # Null =>
        /\ \A p \in 1 .. Len(s.changes) : s.changes[p].newLineStart <= MaxLine
        /\ \A q \in 1 .. Len(s.notes) : s.notes[q].line <= MaxLine

\* onDidChangeTextDocument: a document was edited
UpdateLineMapping ==
    \E uri \in Uris, edits \in EditLists :
        LET r == updateLineMapping(session, store, uri, edits)
        IN /\ AnchorsWithin(r.session)
           /\ Apply(Op("updateLineMapping", 0), r)

NextMap ==
    \/ StartMapSession
    \/ AcceptChange
    \/ RejectChange
    \/ UpdateLineMapping

SpecMap == Init /\ [][NextMap]_vars

NextNotes ==
    \/ StartNotedSession
    \/ AddNote
    \/ ResolveNote
    \/ UpdateLineMapping

SpecNotes == Init /\ [][NextNotes]_vars

\* The notes of a review: added, edited, resolved and deleted by id.
\* addNote does not look at the ids the list holds, and the add-note command
\* hands every note to it twice (noteActions.ts), so an id can occur twice.
ReviewNoteIds == {201, 202}

NoteFile(id) == PathOf(IF id = 201 THEN "fileA" ELSE "fileB")

\* the select-commit command starts a review when none is active
StartReview ==
    /\ session = Null
    /\ Apply(StartOp(1, 1, 0),
             startSession(session, store, CommitInfo(1), ChangeList(1, 1), 0))

AddReviewNote ==
    \E id \in ReviewNoteIds :
        /\ session # Null => Len(session.notes) < MaxReviewNotes
        /\ Apply(Op("addNote", id),
                 addNote(session, store, MkNote(id, NoteFile(id), 0)))

UpdateNote ==
    \E id \in ReviewNoteIds :
        Apply(Op("updateNote", id), updateNote(session, store, id, "edited", 1))

ResolveReviewNote ==
    \E id \in ReviewNoteIds :
        Apply(Op("resolveNote", id), resolveNote(session, store, id))

DeleteNote ==
    \E id \in ReviewNoteIds :
        Apply(Op("deleteNote", id), deleteNote(session, store, id))

NextReview ==
    \/ StartReview
    \/ AddReviewNote
    \/ UpdateNote
    \/ ResolveReviewNote
    \/ DeleteNote
    \/ EndSession

SpecReview == Init /\ [][NextReview]_vars

\* the workspace state a new release finds at its first start: nothing, or
\* the session a release without notes left there, just started or advanced
\* to its second change
StartupStores ==
    LET Started(n) == startSession(Null, Null, CommitInfo(1), ChangeList(1, n), 1)
    IN {Null}
         \cup {LegacySerialize(Started(n).session) : n \in 0 .. MaxChanges}
         \cup {LegacySerialize(nextChange(Started(n).session, Null).session) :
                  n \in 2 .. MaxChanges}

\* a manager is constructed over the workspace state it finds
InitRestore ==
    \E st \in StartupStores :
        LET r == restoreSession(st)
        IN /\ session = r.session
           /\ store = r.store
           /\ lastOp = [name |-> "construct", arg |-> 0, hadSession |-> FALSE]
           /\ ret = r.ret
           /\ effects = r.effects
           /\ commands = <<>>
           /\ document = Untouched

SpecRestore == InitRestore /\ [][NextCode]_vars

\* The parser applied to one section of a diff: the text that follows a
\* "diff --git " separator, its first line naming the file.

\* lines of a hunk body: context, deleted and added lines
BodyLines ==
    {<<" ", "a">>, <<"-", "a">>, <<"-", "b">>, <<"+", "a">>, <<"+", "b">>}

\* hunk headers: with both counts, and of a new file with the new count left out
CountedHeader == <<"@@", " -", "62", ",", "3", " +", "62", ",", "4", " @@">>

NewFileHeader == <<"@@", " -", "0", ",", "0", " +", "1", " @@">>

HunkHeaders == {CountedHeader, NewFileHeader}

SourcePath == <<"src", "/", "a", ".", "ts">>

GitLine == <<"a/", SourcePath, " b/", SourcePath>>

WorkspaceRoot == <<"ws">>

Sections ==
    {<<GitLine>> \o rest :
        rest \in UNION {[1 .. n -> BodyLines \cup HunkHeaders] :
                           n \in 0 .. MaxSectionLines}}

InitSection ==
    /\ session = Null
    /\ store = Null
    /\ ret = Undefined
    /\ effects = <<>>
    /\ commands = <<>>
    /\ document = Untouched
    /\ \E fileDiff \in Sections :
           lastOp = [name |-> "section", arg |-> fileDiff, hadSession |-> FALSE]

ParseFileDiff ==
    /\ lastOp.name = "section"
    /\ ret' = parseFileDiff(lastOp.arg, WorkspaceRoot, 0)
    /\ lastOp' = [lastOp EXCEPT !.name = "parseFileDiff"]
    /\ UNCHANGED <<session, store, effects, commands, document>>

SpecSection == InitSection /\ [][ParseFileDiff]_vars

\* The parser applied to a whole diff text, and flattenHunks to its result.

OtherPath == <<"b", ".", "ts">>

ImagePath == <<"Image", ".", "PNG">>

\* first lines of the sections: of two source files, of an image, and one
\* that names no file
DiffLine(path) == <<"diff --git ", "a/", path, " b/", path>>

DiffLines ==
    {DiffLine(SourcePath), DiffLine(OtherPath), DiffLine(ImagePath),
     <<"diff --git ", "garbage">>}

BinaryMarker == <<"Binary files", " a/x and b/x differ">>

NewFileMode == <<"new file mode", " 100644">>

\* what follows the first line of a section
SectionBodies ==
    {<<>>,
     <<BinaryMarker>>,
     <<BinaryMarker, CountedHeader, <<"-", "a">>, <<"+", "b">>>>,
     <<CountedHeader, <<"+", "a">>>>,
     <<CountedHeader, <<"-", "a">>, <<" ", "a">>, <<"+", "a">>>>,
     <<NewFileMode, NewFileHeader, <<"+", "a">>, <<"+", "b">>>>,
     <<CountedHeader, <<" ", "a">>>>}

DiffSections == {<<first>> \o body : first \in DiffLines, body \in SectionBodies}

\* what precedes the first section: nothing, or a line of a log
Preambles == {<<>>, <<<<"commit 1">>>>}

RECURSIVE Concat(_)
Concat(texts) == IF texts = <<>> THEN <<>> ELSE Head(texts) \o Concat(Tail(texts))

DiffTexts ==
    {pre \o Concat(secs) :
        pre \in Preambles,
        secs \in UNION {[1 .. n -> DiffSections] : n \in 0 .. MaxSections}}

InitDiff ==
    /\ session = Null
    /\ store = Null
    /\ ret = Undefined
    /\ effects = <<>>
    /\ commands = <<>>
    /\ document = Untouched
    /\ \E diffOutput \in DiffTexts :
           lastOp = [name |-> "diff", arg |-> diffOutput, hadSession |-> FALSE]

ParseDiffOutput ==
    /\ lastOp.name = "diff"
    /\ ret' = [kind |-> "hunks",
               hunks |-> parseDiffOutput(lastOp.arg, WorkspaceRoot)]
    /\ lastOp' = [lastOp EXCEPT !.name = "parseDiffOutput"]
    /\ UNCHANGED <<session, store, effects, commands, document>>

FlattenHunks ==
    /\ lastOp.name = "parseDiffOutput"
    /\ ret' = [kind |-> "changes", changes |-> flattenHunks(ret.hunks)]
    /\ lastOp' = [name |-> "flattenHunks", arg |-> ret.hunks, hadSession |-> FALSE]
    /\ UNCHANGED <<session, store, effects, commands, document>>

NextDiff == ParseDiffOutput \/ FlattenHunks

SpecDiff == InitDiff /\ [][NextDiff]_vars

---------------------------------------------------------------------------
(* Vocabulary of the properties *)

Positions(s) == IF s = Null THEN {} ELSE 1 .. Len(s.changes)

\* positions of the full change list whose change is pending
PendingPos(s) == {p \in Positions(s) : s.changes[p].status = "pending"}

PendingCount(s) == Cardinality(PendingPos(s))

\* the change with this id is in the session and pending
IsPendingId(s, id) == \E p \in PendingPos(s) : s.changes[p].id = id

\* the emits of the given name among the effects, in order
Emits(effs, name) == SelectSeq(effs, LAMBDA e : e.eff = "emit" /\ e.name = name)

AllEmits(effs) == SelectSeq(effs, LAMBDA e : e.eff = "emit")

\* the store writes among the effects, in order
Writes(effs) == SelectSeq(effs, LAMBDA e : e.eff \in {"persist", "clear"})

IsResolveOp(op) == op.name \in {"acceptChange", "rejectChange"}

\* fsPath names the file filePath, under either separator convention
SameFile(fsPath, filePath) ==
    /\ Len(fsPath) = Len(filePath)
    /\ \A i \in 1 .. Len(fsPath) :
          \/ fsPath[i] = filePath[i]
          \/ (fsPath[i] = "\\" /\ filePath[i] = "/")

\* the 1-indexed first and last line of the range an edit replaces
EditStartLine(e) == e.range.start.line + 1
EditEndLine(e) == e.range.end.line + 1

\* the number of line breaks of a text
LineBreaks(text) == Cardinality({i \in 1 .. Len(text) : text[i] = "\n"})

\* lineDelta of an edit: segments of the replacement minus lines replaced
LineDelta(e) == (LineBreaks(e.text) + 1) - (EditEndLine(e) - EditStartLine(e) + 1)

\* where an anchor on this line stands after the edits, taken in order
RECURSIVE ShiftAll(_, _)
ShiftAll(line, edits) ==
    IF edits = <<>> THEN line
    ELSE ShiftAll(IF line > EditEndLine(Head(edits))
                  THEN line + LineDelta(Head(edits))
                  ELSE line,
                  Tail(edits))

\* the least element of a non-empty set of positions
FirstOf(S) == CHOOSE q \in S : \A r \in S : q <= r

---------------------------------------------------------------------------
(* Properties *)

\* C1: within a session, acceptChange(id) (resp. rejectChange(id)) on a
\* pending change sets its status to accepted (resp. rejected) and returns
\* true; on a change that is already resolved it returns false and leaves the
\* status as it is; and no operation on the session (a restart included)
\* changes the status of a resolved change, so a change is resolved at most
\* once and never returns to pending.
C1_ResolveOnce ==
    [][\A p \in Positions(session) :
         LET id == session.changes[p].id
             before == session.changes[p].status
             target == IF lastOp'.name = "acceptChange" THEN "accepted" ELSE "rejected"
         IN /\ (IsResolveOp(lastOp') /\ lastOp'.arg = id /\ before = "pending")
                 => /\ ret' = BoolVal(TRUE)
                    /\ session'.changes[p].status = target
            /\ (IsResolveOp(lastOp') /\ lastOp'.arg = id /\ before # "pending")
                 => /\ ret' = BoolVal(FALSE)
                    /\ session'.changes[p].status = before
            /\ (before # "pending" /\ lastOp'.name \notin {"startSession", "endSession"})
                 => /\ session' # Null
                    /\ session'.changes[p].id = id
                    /\ session'.changes[p].status = before
      ]_vars

\* a reject of an already accepted change has just failed
C1_Witness ==
    /\ session # Null
    /\ lastOp.name = "rejectChange"
    /\ ret = BoolVal(FALSE)
    /\ \E p \in Positions(session) :
          /\ session.changes[p].id = lastOp.arg
          /\ session.changes[p].status = "accepted"

\* C2: acceptChange/rejectChange with an id that is not in the session, with
\* the id of a resolved change, or with no active session returns false and
\* leaves the session (statuses, cursor, notes) and the store untouched and
\* emits nothing.
C2_InvalidTargetNoEffect ==
    [][(IsResolveOp(lastOp') /\ ~IsPendingId(session, lastOp'.arg))
         => /\ ret' = BoolVal(FALSE)
            /\ session' = session
            /\ store' = store
            /\ effects' = <<>>
      ]_vars

\* an accept of an unknown id has just failed in a session that holds a note
\* and a resolved change, with the cursor off zero
C2_Witness ==
    /\ session # Null
    /\ lastOp.name = "acceptChange"
    /\ lastOp.arg = UnknownId
    /\ ret = BoolVal(FALSE)
    /\ Len(session.notes) > 0
    /\ session.currentIndex > 0
    /\ \E p \in Positions(session) : session.changes[p].status = "rejected"

\* C3: startSession while a session is active fails and leaves the active
\* session and the store as they are.
C3_StartWhileActiveFails ==
    [][(lastOp'.name = "startSession" /\ session # Null)
         => /\ session' = session
            /\ store' = store
      ]_vars

\* C4: startSession with no active session installs a session holding the
\* given commit hash, short hash, message, base hash and change list, with
\* currentIndex = 0 and no notes, writes it to the store, and emits
\* sessionStarted exactly once, carrying that session.
C4_StartInstalls ==
    [][(lastOp'.name = "startSession" /\ session = Null)
         => LET info == CommitInfo(lastOp'.arg)
                changes == ChangeList(lastOp'.arg, lastOp'.n)
            IN /\ session' # Null
               /\ session'.commitHash = info.commitHash
               /\ session'.shortHash = info.shortHash
               /\ session'.commitMessage = info.commitMessage
               /\ session'.baseCommitHash = info.baseCommitHash
               /\ session'.changes = changes
               /\ session'.notes = <<>>
               /\ session'.currentIndex = 0
               /\ session'.startedAt = lastOp'.now
               /\ store' # Null
               /\ store'.commitHash = info.commitHash
               /\ store'.shortHash = info.shortHash
               /\ store'.commitMessage = info.commitMessage
               /\ store'.baseCommitHash = info.baseCommitHash
               /\ store'.changes = changes
               /\ store'.notes = <<>>
               /\ store'.currentIndex = 0
               /\ store'.startedAt = toISOString(lastOp'.now)
               /\ Len(Writes(effects')) = 1
               /\ Writes(effects')[1] = PersistEff(store')
               /\ Len(AllEmits(effects')) = 1
               /\ Len(Emits(effects', "sessionStarted")) = 1
               /\ Emits(effects', "sessionStarted")[1].payload = session'
      ]_vars

\* a session over a full change list has just been started by a manager that
\* had none
C4_Witness ==
    /\ lastOp.name = "startSession"
    /\ ~lastOp.hadSession
    /\ lastOp.arg = MaxCommits
    /\ lastOp.now = 1
    /\ session # Null
    /\ Len(session.changes) = MaxChanges
    /\ Len(effects) = 2

\* C5: endSession with no active session returns null and changes nothing;
\* with an active session it returns the accepted/rejected/pending counts as
\* getSessionStats gave them just before the call, leaves no session, clears
\* the store slot (a manager constructed over it has no session) and emits
\* sessionEnded exactly once.
C5_EndSession ==
    [][lastOp'.name = "endSession"
         => IF session = Null
            THEN /\ ret' = Null
                 /\ session' = session
                 /\ store' = store
                 /\ effects' = <<>>
            ELSE /\ ret' = getSessionStats(session)
                 /\ ret'.accepted =
                      Cardinality({p \in Positions(session) :
                                      session.changes[p].status = "accepted"})
                 /\ ret'.rejected =
                      Cardinality({p \in Positions(session) :
                                      session.changes[p].status = "rejected"})
                 /\ ret'.pending = PendingCount(session)
                 /\ session' = Null
                 /\ store' = Null
                 /\ restoreSession(store').session = Null
                 /\ Len(AllEmits(effects')) = 1
                 /\ Len(Emits(effects', "sessionEnded")) = 1
      ]_vars

\* a session with accepted, rejected and pending changes has just been ended
C5_Witness ==
    /\ lastOp.name = "endSession"
    /\ lastOp.hadSession
    /\ session = Null
    /\ store = Null
    /\ ret = [kind |-> "stats", accepted |-> 1, rejected |-> 1, pending |-> 1]

\* C6: whenever a session is active, a manager constructed from the store
\* restores a session identical to the one in memory.
C6_RoundTrip == session # Null => restoreSession(store).session = session

\* C7: getPendingChanges is the change list filtered to the pending changes
\* in list order; getCurrentChange is the element at position currentIndex of
\* that filtered list, or null when there is no session or currentIndex is
\* negative or not below the number of pending changes; a non-null current
\* change is pending.
C7_PendingView ==
    LET pend == getPendingChanges(session)
        cur == getCurrentChange(session)
    IN IF session = Null THEN pend = <<>> /\ cur = Null
       ELSE /\ Len(pend) = PendingCount(session)
            /\ \A j \in 1 .. Len(pend) :
                  \E p \in PendingPos(session) :
                     /\ pend[j] = session.changes[p]
                     /\ Cardinality({q \in PendingPos(session) : q < p}) = j - 1
            /\ IF session.currentIndex < 0
                  \/ session.currentIndex >= PendingCount(session)
               THEN cur = Null
               ELSE /\ cur = pend[session.currentIndex + 1]
                    /\ cur.status = "pending"
                    /\ \E p \in PendingPos(session) :
                          /\ cur = session.changes[p]
                          /\ Cardinality({q \in PendingPos(session) : q < p})
                               = session.currentIndex

\* the cursor is on the last change of the list while the first one is
\* resolved and the second is pending
C7_Witness ==
    /\ session # Null
    /\ Len(session.changes) = 3
    /\ session.changes[1].status = "accepted"
    /\ session.changes[2].status = "pending"
    /\ session.changes[3].status = "pending"
    /\ session.currentIndex = 1
    /\ getCurrentChange(session) = session.changes[3]

\* the values returned by k consecutive nextChange calls from session s
RECURSIVE NextRun(_, _, _)
NextRun(s, st, k) ==
    IF k = 0 THEN <<>>
    ELSE LET r == nextChange(s, st)
         IN <<r.ret>> \o NextRun(r.session, r.store, k - 1)

\* C8: with n >= 1 pending changes and a stored cursor i >= 0, nextChange
\* sets currentIndex to (i + 1) mod n, returns the pending change at that
\* position, writes the session to the store and emits currentChangeUpdated
\* with that change; n consecutive calls return every pending change exactly
\* once.
C8_NextChange ==
    [][(lastOp'.name = "nextChange" /\ session # Null
          /\ PendingCount(session) >= 1 /\ session.currentIndex >= 0)
         => LET n == PendingCount(session)
                j == (session.currentIndex + 1) % n
                run == NextRun(session, store, n)
            IN /\ session' = [session EXCEPT !.currentIndex = j]
               /\ \E p \in PendingPos(session) :
                     /\ Cardinality({q \in PendingPos(session) : q < p}) = j
                     /\ ret' = session.changes[p]
               /\ store' # Null
               /\ restoreSession(store').session = session'
               /\ Len(Writes(effects')) = 1
               /\ Writes(effects')[1] = PersistEff(store')
               /\ Len(AllEmits(effects')) = 1
               /\ Len(Emits(effects', "currentChangeUpdated")) = 1
               /\ Emits(effects', "currentChangeUpdated")[1].payload = ret'
               /\ run[1] = ret'
               /\ {run[x] : x \in 1 .. n}
                    = {session.changes[p] : p \in PendingPos(session)}
      ]_vars

\* nextChange has just wrapped from the last of three pending changes to the
\* first one
C8_Witness ==
    /\ lastOp.name = "nextChange"
    /\ session # Null
    /\ PendingCount(session) = 3
    /\ session.currentIndex = 0
    /\ ret = session.changes[1]

\* C9: with n >= 1 pending changes, prevChange leaves 0 <= currentIndex < n
\* and returns, and emits with currentChangeUpdated, the pending change at
\* that position.
C9_PrevChangeInRange ==
    [][(lastOp'.name = "prevChange" /\ session # Null
          /\ PendingCount(session) >= 1)
         => /\ session'.currentIndex >= 0
            /\ session'.currentIndex < PendingCount(session)
            /\ \E p \in PendingPos(session) :
                  /\ Cardinality({q \in PendingPos(session) : q < p})
                       = session'.currentIndex
                  /\ ret' = session.changes[p]
            /\ Len(Emits(effects', "currentChangeUpdated")) = 1
            /\ Emits(effects', "currentChangeUpdated")[1].payload = ret'
      ]_vars

\* C10: when no change is pending or no session is active, nextChange and
\* prevChange return null, leave the session (the cursor included) and the
\* store as they are and emit nothing.
C10_NavigateNothingPending ==
    [][(lastOp'.name \in {"nextChange", "prevChange"}
          /\ PendingCount(session) = 0)
         => /\ ret' = Null
            /\ session' = session
            /\ store' = store
            /\ effects' = <<>>
      ]_vars

\* prevChange has just returned null in a session whose changes are all
\* resolved
C10_Witness ==
    /\ lastOp.name = "prevChange"
    /\ session # Null
    /\ Len(session.changes) = MaxChanges
    /\ PendingCount(session) = 0
    /\ ret = Null

\* C11: setCurrentChange(id) for an id present in the session sets
\* currentIndex to the position (counted from 0) of that change in the full
\* change list, whatever the statuses of the changes, and leaves every change
\* and every note as it is.
C11_SetCurrentChange ==
    [][(lastOp'.name = "setCurrentChange" /\ session # Null)
         => \A p \in Positions(session) :
               (/\ session.changes[p].id = lastOp'.arg
                /\ \A q \in 1 .. (p - 1) : session.changes[q].id # lastOp'.arg)
                 => /\ session' # Null
                    /\ session'.currentIndex = p - 1
                    /\ session'.changes = session.changes
                    /\ session'.notes = session.notes
      ]_vars

\* the cursor has just been set on the last of three changes while the first
\* one is resolved and the session holds a note
C11_Witness ==
    /\ lastOp.name = "setCurrentChange"
    /\ session # Null
    /\ Len(session.changes) = 3
    /\ lastOp.arg = session.changes[3].id
    /\ session.changes[1].status = "rejected"
    /\ session.currentIndex = 2
    /\ Len(session.notes) = 1

\* C12: after setCurrentChange(id) for a pending change, getCurrentChange()
\* returns exactly that change, also when changes earlier in the list are
\* already accepted or rejected.
C12_JumpLandsOnChange ==
    [][(lastOp'.name = "setCurrentChange" /\ IsPendingId(session, lastOp'.arg))
         => /\ getCurrentChange(session') # Null
            /\ getCurrentChange(session').id = lastOp'.arg
      ]_vars

\* C13: in every reachable session state and for every pending change x,
\* setCurrentChange(x) followed by acceptChange(x) or rejectChange(x) leaves
\* getCurrentChange() returning the next pending change after x in list
\* order, or the first pending change when none follows x, and null only when
\* nothing is pending.
C13_JumpThenResolve ==
    \A p \in PendingPos(session) :
        LET x == session.changes[p].id
            jumped == setCurrentChange(session, store, x)
            after == {q \in PendingPos(session) : q > p}
            others == PendingPos(session) \ {p}
            expected == IF after # {} THEN session.changes[FirstOf(after)]
                        ELSE IF others # {} THEN session.changes[FirstOf(others)]
                        ELSE Null
        IN /\ getCurrentChange(acceptChange(jumped.session, jumped.store, x).session)
                = expected
           /\ getCurrentChange(rejectChange(jumped.session, jumped.store, x).session)
                = expected

\* C14: after a successful acceptChange/rejectChange that leaves at least one
\* change pending, currentIndex equals its previous value when that value is
\* below the new pending count and 0 otherwise; when no change is left
\* pending currentIndex is unchanged; a failed accept/reject leaves the
\* cursor as it is.
C14_CursorAfterResolve ==
    [][(IsResolveOp(lastOp') /\ session # Null)
         => /\ session' # Null
            /\ IF ret' = BoolVal(TRUE)
               THEN /\ PendingCount(session') = PendingCount(session) - 1
                    /\ session'.currentIndex =
                         IF PendingCount(session') >= 1
                            /\ session.currentIndex >= PendingCount(session')
                         THEN 0
                         ELSE session.currentIndex
               ELSE session'.currentIndex = session.currentIndex
      ]_vars

\* a reject has just left one change pending and wrapped the cursor from 1
\* (as written to the store before the wrap) to 0
C14_Witness ==
    /\ lastOp.name = "rejectChange"
    /\ ret = BoolVal(TRUE)
    /\ session # Null
    /\ PendingCount(session) = 1
    /\ Len(Writes(effects)) = 1
    /\ Writes(effects)[1].value.currentIndex = 1
    /\ session.currentIndex = 0

\* C15: updateLineMapping(file, edits) takes the edits in order; for each
\* edit, with editStartLine and editEndLine the 1-indexed first and last line
\* of the replaced range, linesRemoved = editEndLine - editStartLine + 1,
\* linesAdded = the number of newline-separated segments of the replacement
\* and lineDelta = linesAdded - linesRemoved, every pending change of that
\* file with newLineStart > editEndLine gets newLineStart increased by
\* lineDelta; an edit inserting k lines entirely before the anchor of a
\* pending change shifts that anchor by exactly +k.
C15_ShiftPending ==
    session # Null =>
        \A uri \in Uris, edits \in EditLists :
            LET r == updateLineMapping(session, store, uri, edits)
            IN \A p \in PendingPos(session) :
                  LET anchor == session.changes[p].newLineStart
                      moved == r.session.changes[p].newLineStart
                  IN SameFile(uri.fsPath, session.changes[p].filePath)
                       => /\ moved = ShiftAll(anchor, edits)
                          /\ (/\ Len(edits) = 1
                              /\ EditStartLine(edits[1]) = EditEndLine(edits[1])
                              /\ anchor > EditEndLine(edits[1]))
                               => moved = anchor + LineBreaks(edits[1].text)

\* an edit between two pending changes of fileB has just moved the second
\* one up and left the first one in place
C15_Witness ==
    /\ lastOp.name = "updateLineMapping"
    /\ session # Null
    /\ Len(session.changes) = 3
    /\ session.changes[2].status = "pending"
    /\ session.changes[2].newLineStart = 4
    /\ session.changes[3].status = "pending"
    /\ session.changes[3].newLineStart = 5
    /\ Len(Emits(effects, "lineMappingUpdated")) = 1

\* C16: updateLineMapping never modifies an accepted or rejected change, a
\* change of another file, a pending change whose newLineStart is at or
\* before the last line of every edit, or any field other than newLineStart:
\* statuses, counts, contents, the order of the change list, the commit data
\* and currentIndex are unchanged.
C16_ShiftNothingElse ==
    session # Null =>
        \A uri \in Uris, edits \in EditLists :
            LET r == updateLineMapping(session, store, uri, edits)
            IN /\ r.session # Null
               /\ Len(r.session.changes) = Len(session.changes)
               /\ [r.session EXCEPT !.changes = session.changes,
                                    !.notes = session.notes] = session
               /\ \A p \in Positions(session) :
                     LET before == session.changes[p]
                         after == r.session.changes[p]
                     IN /\ [after EXCEPT !.newLineStart = before.newLineStart] = before
                        /\ before.status # "pending" => after = before
                        /\ ~SameFile(uri.fsPath, before.filePath) => after = before
                        /\ (\A i \in 1 .. Len(edits) :
                               before.newLineStart <= EditEndLine(edits[i]))
                             => after = before

\* an edit of fileB has just moved its pending change while its accepted
\* change and the rejected change of fileA stand where the parser put them
C16_Witness ==
    /\ lastOp.name = "updateLineMapping"
    /\ session # Null
    /\ Len(session.changes) = 3
    /\ session.changes[1].status = "rejected"
    /\ session.changes[1].newLineStart = 2
    /\ session.changes[2].status = "accepted"
    /\ session.changes[2].newLineStart = 4
    /\ session.changes[3].status = "pending"
    /\ session.changes[3].newLineStart = 5
    /\ Len(Emits(effects, "lineMappingUpdated")) = 1

C18_SilentWhenNothingMoved ==
    session # Null =>
        \A uri \in Uris, edits \in EditLists :
            LET r == updateLineMapping(session, store, uri, edits)
                movedChanges == {p \in Positions(session) :
                                    r.session.changes[p].newLineStart
                                      # session.changes[p].newLineStart}
                movedNotes == {q \in 1 .. Len(session.notes) :
                                  r.session.notes[q].line # session.notes[q].line}
            IN /\ Emits(r.effects, "lineMappingUpdated") # <<>> => movedChanges # {}
               /\ Emits(r.effects, "notesUpdated") # <<>> => movedNotes # {}
               /\ Writes(r.effects) # <<>> => (movedChanges # {} \/ movedNotes # {})
               /\ (movedChanges = {} /\ movedNotes = {})
                    => /\ r.effects = <<>>
                       /\ r.store = store

\* C19: constructing a manager over a store that holds a serialized session
\* yields an active session with that content (commit data, changes, notes,
\* cursor, start time) and emits sessionRestored once, carrying it; a stored
\* form without a notes array restores with an empty note list; over an empty
\* store the manager has no active session and emits nothing; the store is
\* left as it is.
C19_Restore ==
    [][lastOp'.name = "construct"
         => /\ store' = store
            /\ ret' = Undefined
            /\ IF store = Null
               THEN /\ session' = Null
                    /\ effects' = <<>>
               ELSE /\ session' # Null
                    /\ session'.commitHash = store.commitHash
                    /\ session'.shortHash = store.shortHash
                    /\ session'.commitMessage = store.commitMessage
                    /\ session'.baseCommitHash = store.baseCommitHash
                    /\ session'.changes = store.changes
                    /\ session'.currentIndex = store.currentIndex
                    /\ toISOString(session'.startedAt) = store.startedAt
                    /\ IF "notes" \in DOMAIN store
                       THEN session'.notes = store.notes
                       ELSE session'.notes = <<>>
                    /\ Len(effects') = 1
                    /\ Len(Emits(effects', "sessionRestored")) = 1
                    /\ Emits(effects', "sessionRestored")[1].payload = session'
      ]_vars

\* after a restart, a manager has just been constructed once more over the
\* session that a release without notes had advanced to its second change
C19_Witness ==
    /\ lastOp.name = "construct"
    /\ lastOp.hadSession
    /\ store # Null
    /\ "notes" \notin DOMAIN store
    /\ session # Null
    /\ session.notes = <<>>
    /\ Len(session.changes) = MaxChanges
    /\ session.currentIndex = 1
    /\ Len(Emits(effects, "sessionRestored")) = 1

\* C20: in every reachable state with an active session, getSessionStats()
\* returns for each status the number of changes with that status, and
\* accepted + rejected + pending equals the length of the change list; with
\* no active session it returns 0, 0 and 0.
C20_SessionStats ==
    LET stats == getSessionStats(session)
        Count(status) == Cardinality({p \in Positions(session) :
                                         session.changes[p].status = status})
    IN IF session = Null
       THEN /\ stats.accepted = 0
            /\ stats.rejected = 0
            /\ stats.pending = 0
       ELSE /\ stats.accepted = Count("accepted")
            /\ stats.rejected = Count("rejected")
            /\ stats.pending = Count("pending")
            /\ stats.accepted + stats.rejected + stats.pending = Len(session.changes)

\* a session after a reject, with one accepted and one pending change beside
\* the rejected one
C20_Witness ==
    /\ session # Null
    /\ lastOp.name = "rejectChange"
    /\ ret = BoolVal(TRUE)
    /\ getSessionStats(session).accepted = 1
    /\ getSessionStats(session).rejected = 1
    /\ getSessionStats(session).pending = 1

---------------------------------------------------------------------------
(* Vocabulary of the parser's properties: the blocks of a section, read    *)
(* off its lines without the parser                                        *)

\* what the first character of a line makes of it
LineKind(line) ==
    IF Len(line) = 0 THEN "other"
    ELSE CASE line[1] = " " -> "context"
           [] line[1] = "-" -> "deleted"
           [] line[1] = "+" -> "added"
           [] line[1] = "@@" -> "header"
           [] OTHER -> "other"

\* the section that was parsed, and the changes the parser made of it
ParsedSection == lastOp.arg

ParsedChanges == IF ret = Null THEN <<>> ELSE ret.changes

SectionParsed == lastOp.name = "parseFileDiff"

\* the hunk header that line i of the section belongs to; 0 before the first
HeaderOf(L, i) ==
    LET hs == {h \in 1 .. (i - 1) : LineKind(L[h]) = "header"}
    IN IF hs = {} THEN 0 ELSE CHOOSE h \in hs : \A g \in hs : g <= h

\* first lines of the runs of deleted lines of the hunk bodies
DeleteRunStarts(L) ==
    {i \in 2 .. Len(L) : /\ LineKind(L[i]) = "deleted"
                         /\ HeaderOf(L, i) # 0
                         /\ LineKind(L[i - 1]) # "deleted"}

\* first lines of the runs of added lines that no deleted line precedes
AddRunStarts(L) ==
    {i \in 2 .. Len(L) : /\ LineKind(L[i]) = "added"
                         /\ HeaderOf(L, i) # 0
                         /\ LineKind(L[i - 1]) \notin {"deleted", "added"}}

\* number of consecutive lines of one kind from line i on
RunLength(L, i, kind) ==
    Cardinality({j \in i .. Len(L) : \A m \in i .. j : LineKind(L[m]) = kind})

\* the lines i .. i+n-1 without their first character
Stripped(L, i, n) == [k \in 1 .. n |-> Tail(L[i + k - 1])]

\* rank of the run that starts at line i among the runs of the section
RunRank(L, i) ==
    Cardinality({r \in DeleteRunStarts(L) \cup AddRunStarts(L) : r <= i})

\* positions of the parsed changes of one type
ChangesOfType(type) ==
    {k \in 1 .. Len(ParsedChanges) : ParsedChanges[k].type = type}

\* C21: a run of d deleted lines directly followed by a added lines is
\* parsed into exactly one modify change with old count d and new count a,
\* equal or not, and a run of d deleted lines that no added line follows
\* into exactly one delete change with old count d and new count 0
C21_DeleteRuns ==
    SectionParsed =>
        LET L == ParsedSection
            Followed(i) == RunLength(L, i + RunLength(L, i, "deleted"), "added")
        IN /\ Cardinality(ChangesOfType("modify"))
                 = Cardinality({i \in DeleteRunStarts(L) : Followed(i) >= 1})
           /\ Cardinality(ChangesOfType("delete"))
                 = Cardinality({i \in DeleteRunStarts(L) : Followed(i) = 0})
           /\ \A i \in DeleteRunStarts(L) :
                 /\ RunRank(L, i) <= Len(ParsedChanges)
                 /\ LET c == ParsedChanges[RunRank(L, i)]
                    IN /\ c.oldLineCount = RunLength(L, i, "deleted")
                       /\ c.newLineCount = Followed(i)
                       /\ c.type = IF Followed(i) >= 1 THEN "modify" ELSE "delete"

\* a deleted line followed by two added lines has been parsed
C21_Witness ==
    /\ SectionParsed
    /\ \E i \in DeleteRunStarts(ParsedSection) :
          /\ RunLength(ParsedSection, i, "deleted") = 1
          /\ RunLength(ParsedSection, i + 1, "added") = 2
          /\ ParsedChanges[RunRank(ParsedSection, i)].type = "modify"

\* C22: a run of n added lines that no deleted line directly precedes is
\* parsed into exactly one add change with new count n, old count 0, no old
\* content and the n lines without their prefix as new content; the hunk
\* of a new file, added lines only from line 1, gives one add change that
\* covers the file
C22_AddRuns ==
    SectionParsed =>
        LET L == ParsedSection
        IN /\ Cardinality(ChangesOfType("add")) = Cardinality(AddRunStarts(L))
           /\ \A i \in AddRunStarts(L) :
                 /\ RunRank(L, i) <= Len(ParsedChanges)
                 /\ LET c == ParsedChanges[RunRank(L, i)]
                        n == RunLength(L, i, "added")
                    IN /\ c.type = "add"
                       /\ c.newLineCount = n
                       /\ c.oldLineCount = 0
                       /\ c.oldContent = <<>>
                       /\ c.newContent = Stripped(L, i, n)
           /\ (/\ Len(L) >= 3
               /\ L[2] = NewFileHeader
               /\ \A i \in 3 .. Len(L) : LineKind(L[i]) = "added")
              => /\ Len(ParsedChanges) = 1
                 /\ ParsedChanges[1].type = "add"
                 /\ ParsedChanges[1].newLineStart = 1
                 /\ ParsedChanges[1].newLineCount = Len(L) - 2

\* the hunk of a new file of three lines has been parsed into one change
C22_Witness ==
    /\ SectionParsed
    /\ Len(ParsedSection) = 5
    /\ ParsedSection[2] = NewFileHeader
    /\ \A i \in 3 .. 5 : LineKind(ParsedSection[i]) = "added"
    /\ Len(ParsedChanges) = 1
    /\ ParsedChanges[1].newContent = Stripped(ParsedSection, 3, 3)

\* the start lines that a hunk header announces
OldStartOf(header) == IF header = CountedHeader THEN 62 ELSE 0

NewStartOf(header) == IF header = CountedHeader THEN 62 ELSE 1

\* number of lines of the given kinds between header h and line i
Preceding(L, h, i, kinds) ==
    Cardinality({m \in (h + 1) .. (i - 1) : LineKind(L[m]) \in kinds})

\* C23: every change of every hunk of a section starts, on the old side, at
\* the old start of its hunk's header plus the number of context and
\* deleted lines before its block in the hunk body, and on the new side at
\* the header's new start plus the number of context and added lines
\* before it; each hunk counts from its own header
C23_StartLines ==
    SectionParsed =>
        LET L == ParsedSection
            runs == DeleteRunStarts(L) \cup AddRunStarts(L)
        IN /\ Len(ParsedChanges) = Cardinality(runs)
           /\ \A i \in runs :
                 LET c == ParsedChanges[RunRank(L, i)]
                     h == HeaderOf(L, i)
                 IN /\ c.oldLineStart
                          = OldStartOf(L[h])
                              + Preceding(L, h, i, {"context", "deleted"})
                    /\ c.newLineStart
                          = NewStartOf(L[h])
                              + Preceding(L, h, i, {"context", "added"})

\* the hunk @@ -62,3 +62,4 @@ with two context lines before a deleted and
\* an added line has been parsed into a change at 64 / 64
C23_Witness ==
    /\ SectionParsed
    /\ Len(ParsedSection) = 6
    /\ ParsedSection[2] = CountedHeader
    /\ LineKind(ParsedSection[3]) = "context"
    /\ LineKind(ParsedSection[4]) = "context"
    /\ LineKind(ParsedSection[5]) = "deleted"
    /\ LineKind(ParsedSection[6]) = "added"
    /\ Len(ParsedChanges) = 1
    /\ ParsedChanges[1].oldLineStart = 64
    /\ ParsedChanges[1].newLineStart = 64

\* first lines of the maximal blocks of deleted and added lines of the
\* hunk bodies
BlockStarts(L) ==
    {i \in 2 .. Len(L) : /\ LineKind(L[i]) \in {"deleted", "added"}
                         /\ HeaderOf(L, i) # 0
                         /\ LineKind(L[i - 1]) \notin {"deleted", "added"}}

BlockLength(L, i) ==
    Cardinality({j \in i .. Len(L) :
                    \A m \in i .. j : LineKind(L[m]) \in {"deleted", "added"}})

\* no added line of a hunk body is directly followed by a deleted line
DeletionsFirst(L) ==
    \A i \in 2 .. (Len(L) - 1) :
        ~(/\ HeaderOf(L, i) # 0
          /\ LineKind(L[i]) = "added"
          /\ LineKind(L[i + 1]) = "deleted")

\* C24 as stated: whatever the lines of the hunk bodies, there is exactly
\* one change for each maximal block of lines that are not context lines
C24_OnePerBlock ==
    SectionParsed => Len(ParsedChanges) = Cardinality(BlockStarts(ParsedSection))

\* C24, amended: when no added line is directly followed by a deleted
\* line, there is exactly one change for each maximal block of lines that
\* are not context lines, and it covers the whole block
C24_OnePerBlockDeletionsFirst ==
    (SectionParsed /\ DeletionsFirst(ParsedSection)) =>
        LET L == ParsedSection
            Rank(i) == Cardinality({b \in BlockStarts(L) : b <= i})
        IN /\ Len(ParsedChanges) = Cardinality(BlockStarts(L))
           /\ \A i \in BlockStarts(L) :
                 ParsedChanges[Rank(i)].oldLineCount
                    + ParsedChanges[Rank(i)].newLineCount = BlockLength(L, i)

\* a block of two deleted lines and an added line has been parsed into one
\* change
C24_Witness ==
    /\ SectionParsed
    /\ DeletionsFirst(ParsedSection)
    /\ \E i \in BlockStarts(ParsedSection) :
          /\ LineKind(ParsedSection[i]) = "deleted"
          /\ BlockLength(ParsedSection, i) = 3
          /\ RunLength(ParsedSection, i, "deleted") = 2
    /\ Len(ParsedChanges) = 1
    /\ ParsedChanges[1].oldLineCount = 2
    /\ ParsedChanges[1].newLineCount = 1

\* C25: in every change the parser makes the counts are the lengths of the
\* contents; an add has no old line and at least one new line, a delete no
\* new line and at least one old line, a modify at least one of each; and
\* the status is pending
C25_WellFormedChanges ==
    SectionParsed =>
        \A k \in 1 .. Len(ParsedChanges) :
            LET c == ParsedChanges[k]
            IN /\ c.oldLineCount = Len(c.oldContent)
               /\ c.newLineCount = Len(c.newContent)
               /\ c.type \in {"add", "delete", "modify"}
               /\ c.type = "add" => (c.oldLineCount = 0 /\ c.newLineCount >= 1)
               /\ c.type = "delete" => (c.newLineCount = 0 /\ c.oldLineCount >= 1)
               /\ c.type = "modify" => (c.oldLineCount >= 1 /\ c.newLineCount >= 1)
               /\ c.status = "pending"

\* a section has been parsed into an add, a modify and a delete
C25_Witness ==
    /\ SectionParsed
    /\ Len(ParsedChanges) = 3
    /\ ParsedChanges[1].type = "add"
    /\ ParsedChanges[2].type = "modify"
    /\ ParsedChanges[3].type = "delete"

---------------------------------------------------------------------------
(* Vocabulary of the properties of parseDiffOutput: the sections of a diff *)
(* text, read off its lines without the parser                             *)

DiffParsed == lastOp.name = "parseDiffOutput"

\* lines that open a section
SectionStarts(T) ==
    {i \in 1 .. Len(T) : Len(T[i]) >= 1 /\ T[i][1] = "diff --git "}

\* the line that opens the section of line j; 0 before the first section
SectionOf(T, j) ==
    LET before == {i \in SectionStarts(T) : i <= j}
    IN IF before = {} THEN 0 ELSE CHOOSE i \in before : \A k \in before : k <= i

SectionLinesOf(T, i) == {j \in 1 .. Len(T) : SectionOf(T, j) = i}

\* the section names a file on both sides
NamesFile(T, i) == Len(T[i]) = 5 /\ T[i][2] = "a/" /\ T[i][4] = " b/"

\* the section holds a binary marker line, or names a file with a binary
\* extension on its new side
HasBinaryMarker(T, i) ==
    \E j \in SectionLinesOf(T, i) : Len(T[j]) >= 1 /\ T[j][1] = "Binary files"

IsBinarySection(T, i) ==
    HasBinaryMarker(T, i) \/ (NamesFile(T, i) /\ T[i][5] = ImagePath)

\* the lines of a text whose numbers are in kept, in their order
RECURSIVE KeepLines(_, _, _)
KeepLines(T, j, kept) ==
    IF j > Len(T) THEN <<>>
    ELSE (IF j \in kept THEN <<T[j]>> ELSE <<>>) \o KeepLines(T, j + 1, kept)

\* the text without its binary sections
WithoutBinarySections(T) ==
    KeepLines(T, 1, {j \in 1 .. Len(T) :
                        SectionOf(T, j) = 0 \/ ~IsBinarySection(T, SectionOf(T, j))})

\* C26: a section that holds a binary marker line, or whose new-side path
\* has a binary extension, gives no hunk: the text is parsed into the same
\* hunks as the text without these sections
C26_BinarySectionsDropped ==
    DiffParsed =>
        ret.hunks = parseDiffOutput(WithoutBinarySections(lastOp.arg), WorkspaceRoot)

\* the section names a file that is not an image and holds a deleted or an
\* added line after a hunk header
HoldsChange(T, i) ==
    /\ NamesFile(T, i)
    /\ T[i][5] # ImagePath
    /\ \E j \in SectionLinesOf(T, i) :
          /\ LineKind(T[j]) \in {"deleted", "added"}
          /\ \E h \in SectionLinesOf(T, i) : h < j /\ LineKind(T[h]) = "header"

\* the new-side paths of the sections that hold a change, in their order
PathsWithChanges(T) ==
    LET firsts == KeepLines(T, 1, {i \in SectionStarts(T) : HoldsChange(T, i)})
    IN [k \in 1 .. Len(firsts) |-> firsts[k][5]]

\* C27: parseDiffOutput returns a list of hunks for every text; a section
\* that names no file or holds no change gives no hunk, every hunk has at
\* least one change, the hunks come in the order of their sections, and
\* the empty text gives the empty list
C27_TotalAndOrdered ==
    DiffParsed =>
        /\ ret.kind = "hunks"
        /\ \A h \in 1 .. Len(ret.hunks) : Len(ret.hunks[h].changes) >= 1
        /\ [h \in 1 .. Len(ret.hunks) |-> ret.hunks[h].filePath]
              = PathsWithChanges(lastOp.arg)
        /\ lastOp.arg = <<>> => ret.hunks = <<>>

\* a text of a log line and two sections with changes has been parsed into
\* the hunks of the two files in the order of the sections
C27_Witness ==
    /\ DiffParsed
    /\ 1 \notin SectionStarts(lastOp.arg)
    /\ Cardinality(SectionStarts(lastOp.arg)) = 2
    /\ Len(ret.hunks) = 2
    /\ ret.hunks[1].filePath = OtherPath
    /\ ret.hunks[2].filePath = SourcePath

Flattened == lastOp.name = "flattenHunks"

\* the places of the changes in a list of hunks: hunk and position in it
ChangePlaces(hunks) ==
    UNION {{<<h, k>> : k \in 1 .. Len(hunks[h].changes)} : h \in 1 .. Len(hunks)}

\* number of changes in the hunks before hunk h
ChangesBefore(hunks, h) ==
    Cardinality({p \in ChangePlaces(hunks) : p[1] < h})

\* C28: flattenHunks returns the changes of the hunks in the order of the
\* hunks and, within a hunk, in their order there: as many as the hunks
\* hold together, each at its place, none added, dropped or repeated
C28_FlattenHunks ==
    Flattened =>
        LET hunks == lastOp.arg
        IN /\ Len(ret.changes) = Cardinality(ChangePlaces(hunks))
           /\ \A p \in ChangePlaces(hunks) :
                 ret.changes[ChangesBefore(hunks, p[1]) + p[2]]
                    = hunks[p[1]].changes[p[2]]

\* a hunk of two changes and a hunk of one have been flattened into the
\* three changes
C28_Witness ==
    /\ Flattened
    /\ Len(lastOp.arg) = 2
    /\ Len(lastOp.arg[1].changes) = 2
    /\ Len(lastOp.arg[2].changes) = 1
    /\ ret.changes = <<lastOp.arg[1].changes[1], lastOp.arg[1].changes[2],
                       lastOp.arg[2].changes[1]>>
    /\ Cardinality({ret.changes[k].id : k \in 1 .. 3}) = 3

---------------------------------------------------------------------------
(* Vocabulary of the properties of the notes *)

NotesOf(s) == IF s = Null THEN <<>> ELSE s.notes

\* position of the first note with the id; 0 when there is none
FirstWithId(notes, id) ==
    LET at == {q \in 1 .. Len(notes) : notes[q].id = id}
    IN IF at = {} THEN 0 ELSE CHOOSE q \in at : \A r \in at : q <= r

\* the active notes, of one file or of all, apart from the note at position i
ActiveApartFrom(notes, i, files) ==
    KeepLines(notes, 1, {q \in 1 .. Len(notes) : /\ q # i
                                                  /\ notes[q].status = "active"
                                                  /\ notes[q].filePath \in files})

NoteFiles == {NoteFile(id) : id \in ReviewNoteIds}

\* number of resolved notes with the id
ResolvedWithId(notes, id) ==
    Cardinality({q \in 1 .. Len(notes) :
                    notes[q].id = id /\ notes[q].status = "resolved"})

\* resolving the first note with the id, in a session that holds one
ResolveKeepsNote(id) ==
    LET notes == NotesOf(session)
        i == FirstWithId(notes, id)
        after == resolveNote(session, store, id).session
    IN i # 0 =>
          /\ after.notes = [notes EXCEPT ![i].status = "resolved"]
          /\ getUnresolvedNotes(after) = ActiveApartFrom(notes, i, NoteFiles)
          /\ \A f \in NoteFiles :
                getNotesForFile(after, f) = ActiveApartFrom(notes, i, {f})

\* a step that is neither deleteNote nor endSession leaves as many resolved
\* notes of every id as there were
ResolvedNotesStay ==
    lastOp'.name \notin {"deleteNote", "endSession"} =>
        \A id \in ReviewNoteIds :
            ResolvedWithId(NotesOf(session'), id) >= ResolvedWithId(NotesOf(session), id)

C30_DeleteRemovesId ==
    \A id \in ReviewNoteIds :
        LET notes == NotesOf(session)
            after == deleteNote(session, store, id).session
        IN FirstWithId(notes, id) # 0 =>
              /\ \A q \in 1 .. Len(after.notes) : after.notes[q].id # id
              /\ after.notes
                    = KeepLines(notes, 1, {q \in 1 .. Len(notes) : notes[q].id # id})

NoteOps == {"addNote", "updateNote", "resolveNote", "deleteNote"}

\* the event of a note operation
NoteEvent(name) ==
    CASE name = "addNote" -> "noteAdded"
      [] name = "updateNote" -> "noteUpdated"
      [] name = "resolveNote" -> "noteResolved"
      [] name = "deleteNote" -> "noteDeleted"

\* a step of a note operation: without a session, or on an id that no note
\* has, nothing changes and there is no effect; otherwise the effects are
\* the write of the session as it is left, the event of the operation with
\* the note, and notesUpdated, in this order and nothing else
NoteStep ==
    lastOp'.name \in NoteOps =>
        LET name == lastOp'.name
            notes == NotesOf(session)
            i == FirstWithId(notes, lastOp'.arg)
        IN IF session = Null \/ (name # "addNote" /\ i = 0)
           THEN /\ session' = session
                /\ store' = store
                /\ effects' = <<>>
           ELSE LET note == CASE name = "addNote" ->
                                     session'.notes[Len(session'.notes)]
                              [] name = "deleteNote" -> notes[i]
                              [] OTHER -> session'.notes[i]
                IN /\ store' = Serialize(session')
                   /\ Len(effects') = 3
                   /\ effects'[1] = PersistEff(Serialize(session'))
                   /\ effects'[2].eff = "emit"
                   /\ effects'[2].name = NoteEvent(name)
                   /\ effects'[2].payload = note
                   /\ effects'[3].eff = "emit"
                   /\ effects'[3].name = "notesUpdated"

\* C31: each of addNote, updateNote, resolveNote and deleteNote that finds
\* its session and note writes the session to the store, then emits its
\* own event, then notesUpdated, each once; without a session or with an
\* unknown id it changes nothing, writes nothing and emits nothing
C31_NoteEvents == [][NoteStep]_vars

\* a note has been edited: one write, noteUpdated, notesUpdated
C31_Witness ==
    /\ lastOp.name = "updateNote"
    /\ Len(effects) = 3
    /\ effects[2].name = "noteUpdated"
    /\ effects[2].payload.content = "edited"
    /\ store = Serialize(session)

\* the cursor that normalizeIndex leaves when n changes are pending
NormalizedCursor(cursor, n) == IF n > 0 /\ cursor >= n THEN 0 ELSE cursor

\* a successful accept or reject: the write holds the new status and the
\* cursor as it was, the session is left with the normalized cursor, and
\* the two events follow the write, each with the change in its new status
\* and at the normalized cursor
ResolveStep ==
    (IsResolveOp(lastOp') /\ ret' = BoolVal(TRUE)) =>
        LET p == FirstOf({q \in Positions(session) :
                             session.changes[q].id = lastOp'.arg})
            status == IF lastOp'.name = "acceptChange" THEN "accepted" ELSE "rejected"
            event == IF lastOp'.name = "acceptChange"
                     THEN "changeAccepted" ELSE "changeRejected"
            resolved == [session EXCEPT !.changes[p].status = status]
            cursor == NormalizedCursor(session.currentIndex, PendingCount(resolved))
        IN /\ session' = [resolved EXCEPT !.currentIndex = cursor]
           /\ store' = Serialize(resolved)
           /\ Len(effects') = 3
           /\ effects'[1] = PersistEff(Serialize(resolved))
           /\ \A k \in {2, 3} :
                 /\ effects'[k].eff = "emit"
                 /\ effects'[k].payload = session'.changes[p]
                 /\ effects'[k].payload.status = status
                 /\ effects'[k].cursor = cursor
           /\ effects'[2].name = event
           /\ effects'[3].name = "changeUpdated"

\* C32: a successful acceptChange or rejectChange sets the status, writes
\* the session to the store, normalizes the cursor, emits changeAccepted
\* (changeRejected) and then changeUpdated, each once and with the change in
\* its new status, so that listeners see the new status and the normalized
\* cursor
C32_ResolveOrder == [][ResolveStep]_vars

\* the last pending change of the list was current and has been accepted:
\* the store holds the cursor as it was, the listeners saw it wrapped to 0
C32_Witness ==
    /\ lastOp.name = "acceptChange"
    /\ ret = BoolVal(TRUE)
    /\ Len(effects) = 3
    /\ effects[1].value.currentIndex = 1
    /\ effects[2].cursor = 0
    /\ session.currentIndex = 0

\* the change as the parser made it: everything but status and newLineStart
ParsedPart(c) == [c EXCEPT !.status = "pending", !.newLineStart = 0]

\* the session that an operation leaves keeps the change list of session s
\* entry by entry, apart from the fields named
KeepsChanges(s, after, fields) ==
    /\ after # Null
    /\ Len(after.changes) = Len(s.changes)
    /\ \A p \in 1 .. Len(s.changes) :
          /\ ParsedPart(after.changes[p]) = ParsedPart(s.changes[p])
          /\ "status" \notin fields
                => after.changes[p].status = s.changes[p].status
          /\ "newLineStart" \notin fields
                => after.changes[p].newLineStart = s.changes[p].newLineStart

\* C33: in an active session no operation adds, removes or reorders
\* changes or alters the id, type, file, old start, counts or contents of
\* a change; acceptChange and rejectChange change nothing but a status,
\* updateLineMapping nothing but newLineStart, and the navigation and the
\* note operations nothing at all in the change list
C33_ChangeListFrame ==
    session # Null =>
        /\ \A id \in ChangeIds(session) :
              /\ KeepsChanges(session, acceptChange(session, store, id).session,
                              {"status"})
              /\ KeepsChanges(session, rejectChange(session, store, id).session,
                              {"status"})
        /\ KeepsChanges(session, nextChange(session, store).session, {})
        /\ KeepsChanges(session, prevChange(session, store).session, {})
        /\ \A id \in ReviewNoteIds :
              /\ KeepsChanges(session,
                              addNote(session, store,
                                      MkNote(id, NoteFile(id), 0)).session, {})
              /\ KeepsChanges(session,
                              updateNote(session, store, id, "edited", 1).session, {})
              /\ KeepsChanges(session, resolveNote(session, store, id).session, {})
              /\ KeepsChanges(session, deleteNote(session, store, id).session, {})
        /\ \A uri \in Uris, edits \in EditLists :
              KeepsChanges(session,
                           updateLineMapping(session, store, uri, edits).session,
                           {"newLineStart"})

\* a session of three changes in which one has been rejected, one accepted
\* and the pending one moved by an edit
C33_Witness ==
    /\ session # Null
    /\ Len(session.changes) = 3
    /\ session.changes[1].status = "rejected"
    /\ session.changes[2].status = "accepted"
    /\ session.changes[3].status = "pending"
    /\ session.changes[3].newLineStart # MkChange(1, 3).newLineStart
    /\ \A p \in 1 .. 3 : ParsedPart(session.changes[p]) = ParsedPart(MkChange(1, p))

\* C34: every change that the parser makes starts at a line >= 1 on the
\* old and on the new side, whatever the hunk header, the header of a new
\* file included
C34_OneIndexed ==
    SectionParsed =>
        \A k \in 1 .. Len(ParsedChanges) :
            /\ ParsedChanges[k].oldLineStart >= 1
            /\ ParsedChanges[k].newLineStart >= 1

\* lines of the hunk bodies of the section that are of one kind
BodyLinesOfKind(L, kind) ==
    {i \in 1 .. Len(L) : HeaderOf(L, i) # 0 /\ LineKind(L[i]) = kind}

\* the lines of the hunk bodies of one kind, in order, without their prefix
StrippedOfKind(L, kind) ==
    LET kept == KeepLines(L, 1, BodyLinesOfKind(L, kind))
    IN [k \in 1 .. Len(kept) |-> Tail(kept[k])]

\* one field of the parsed changes, change after change
FieldOfChanges(field) ==
    [k \in 1 .. Len(ParsedChanges) |-> ParsedChanges[k][field]]

RECURSIVE SumOf(_)
SumOf(numbers) == IF numbers = <<>> THEN 0 ELSE Head(numbers) + SumOf(Tail(numbers))

\* C39: the old contents of the parsed changes, one after another, are the
\* deleted lines of the hunk bodies in their order without the prefix, the
\* new contents are the added lines, and the old and new counts add up to
\* the numbers of deleted and added lines
C39_ContentPreserved ==
    SectionParsed =>
        /\ Concat(FieldOfChanges("oldContent")) = StrippedOfKind(ParsedSection, "deleted")
        /\ Concat(FieldOfChanges("newContent")) = StrippedOfKind(ParsedSection, "added")
        /\ SumOf(FieldOfChanges("oldLineCount")) =
               Cardinality(BodyLinesOfKind(ParsedSection, "deleted"))
        /\ SumOf(FieldOfChanges("newLineCount")) =
               Cardinality(BodyLinesOfKind(ParsedSection, "added"))

\* a section of two hunks was parsed into three changes that hold deleted
\* and added lines
C39_Witness ==
    /\ SectionParsed
    /\ Len(ParsedChanges) = 3
    /\ Cardinality({i \in 1 .. Len(ParsedSection) :
                       LineKind(ParsedSection[i]) = "header"}) = 2
    /\ Cardinality(BodyLinesOfKind(ParsedSection, "deleted")) >= 1
    /\ Cardinality(BodyLinesOfKind(ParsedSection, "added")) >= 2

\* the active notes of the session, by position
ActiveNotePos(s) ==
    {q \in 1 .. Len(s.notes) : s.notes[q].status = "active"}

\* every anchor of the session is a line number >= 1
AnchorsFromOne(s) ==
    /\ \A p \in 1 .. Len(s.changes) : s.changes[p].newLineStart >= 1
    /\ \A q \in 1 .. Len(s.notes) : s.notes[q].line >= 1

\* C40: an edit that shifts the anchor of a pending change or the line of an
\* active note leaves it after the first line of the edit, which is >= 1;
\* hence all anchors, which start >= 1, are >= 1 after any sequence of
\* edits, whatever the number of lines that an edit removes
C40_AnchorsAfterEditStart ==
    session # Null =>
        /\ AnchorsFromOne(session)
        /\ \A uri \in Uris, edits \in EditLists :
              LET r == updateLineMapping(session, store, uri, edits)
                  e == edits[1]
              IN /\ AnchorsFromOne(r.session)
                 /\ Len(edits) = 1 =>
                       /\ EditStartLine(e) >= 1
                       /\ \A p \in PendingPos(session) :
                             (/\ SameFile(uri.fsPath, session.changes[p].filePath)
                              /\ session.changes[p].newLineStart > EditEndLine(e))
                                => r.session.changes[p].newLineStart > EditStartLine(e)
                       /\ \A q \in ActiveNotePos(session) :
                             (/\ SameFile(uri.fsPath, session.notes[q].filePath)
                              /\ session.notes[q].line > EditEndLine(e))
                                => r.session.notes[q].line > EditStartLine(e)

\* an edit that removed a line above the note and the change of fileB has
\* just moved both up by one line
C40_Witness ==
    /\ lastOp.name = "updateLineMapping"
    /\ session # Null
    /\ Len(session.notes) = 1
    /\ session.notes[1].status = "active"
    /\ session.notes[1].line = 2
    /\ Len(session.changes) = 2
    /\ session.changes[2].status = "pending"
    /\ session.changes[2].newLineStart = 3
    /\ Len(Emits(effects, "notesUpdated")) = 1
    /\ Len(Emits(effects, "lineMappingUpdated")) = 1

\* the ways to resolve the changes of one review, step by step
ResolveChoices == [1 .. (MaxChanges + 1) -> {"accept", "reject"}]

\* the review loop: while getCurrentChange() gives a change, accept or reject
\* it; the result is the session at the end and the number of steps taken,
\* which stops at one more than the length of the change list
RECURSIVE ReviewLoop(_, _, _, _)
ReviewLoop(s, st, choices, steps) ==
    LET currentChange == getCurrentChange(s)
    IN IF currentChange = Null \/ steps > Len(s.changes)
       THEN [session |-> s, steps |-> steps]
       ELSE LET r == IF choices[steps + 1] = "accept"
                     THEN acceptChange(s, st, currentChange.id)
                     ELSE rejectChange(s, st, currentChange.id)
            IN ReviewLoop(r.session, r.store, choices, steps + 1)

\* getCurrentChange() gives a change exactly when a change is pending
CurrentIffPending(s) == (getCurrentChange(s) # Null) <=> (PendingCount(s) >= 1)

\* C35: in a session made by startSession and driven by acceptChange,
\* rejectChange, nextChange and prevChange, and after any note operation or
\* document edit on it, getCurrentChange() gives a change exactly when a
\* change is pending; the loop that resolves getCurrentChange() until it
\* gives none ends with no change pending after as many steps as there
\* were pending changes
C35_ReviewLoopTerminates ==
    session # Null =>
        /\ CurrentIffPending(session)
        /\ CurrentIffPending(addNote(session, store, MkNote(201, PathOf("fileB"), 0)).session)
        /\ CurrentIffPending(resolveNote(session, store, 201).session)
        /\ \A uri \in Uris, edits \in EditLists :
              CurrentIffPending(updateLineMapping(session, store, uri, edits).session)
        /\ \A choices \in ResolveChoices :
              LET end == ReviewLoop(session, store, choices, 0)
              IN /\ end.steps = PendingCount(session)
                 /\ PendingCount(end.session) = 0
                 /\ Len(end.session.changes) = Len(session.changes)

\* the last pending change of a list of two or more has just been resolved:
\* accepted and rejected changes, none pending, no current change
C35_Witness ==
    /\ lastOp.name \in {"acceptChange", "rejectChange"}
    /\ session # Null
    /\ Len(session.changes) >= 2
    /\ PendingCount(session) = 0
    /\ \E p \in Positions(session) : session.changes[p].status = "accepted"
    /\ \E p \in Positions(session) : session.changes[p].status = "rejected"
    /\ getCurrentChange(session) = Null

\* the id of the change that getCurrentChange() gives, or Null
CurrentId(s) ==
    LET currentChange == getCurrentChange(s)
    IN IF currentChange = Null THEN Null ELSE [kind |-> "id", id |-> currentChange.id]

\* C36: acceptChange or rejectChange of a pending change that is not the
\* current one leaves the change that getCurrentChange() gives the same
C36_CurrentKept ==
    (session # Null /\ getCurrentChange(session) # Null) =>
        \A p \in PendingPos(session) :
            LET id == session.changes[p].id
            IN id # getCurrentChange(session).id =>
                  /\ CurrentId(acceptChange(session, store, id).session) = CurrentId(session)
                  /\ CurrentId(rejectChange(session, store, id).session) = CurrentId(session)

\* the change ids whose revert edit is applied to the document in this step
RevertedNow == {id \in DOMAIN document : document'[id] # document[id]}

\* a revert edit is applied to a change that is pending and was not
\* reverted before
RevertOncePending ==
    \A id \in RevertedNow :
        /\ document[id] = 0
        /\ canResolve(getChangeById(session, id))

\* C37: however the steps of reject commands on one change interleave, the
\* revert edit of the change is applied to the document at most once, and
\* only while the change is pending
C37_RevertOncePending == [][RevertOncePending]_vars

\* a command is suspended at document.save() after the revert of the change
HasReverted(id) ==
    \E i \in 1 .. Len(commands) :
        /\ commands[i].pc = "saving"
        /\ commands[i].change.id = id

\* a step in which applyRevert throws leaves the session and the store as
\* they are and emits nothing
FailureKeepsPending ==
    lastOp'.name = "revertFailed" =>
        /\ session' = session
        /\ store' = store
        /\ effects' = <<>>

\* the end of a rejectAll in which a revert failed leaves the session
FailureKeepsSession ==
    (lastOp'.name = "rejectAllFinish" /\ lastOp'.arg > 0) =>
        /\ session' = session
        /\ effects' = <<>>

\* a change is marked rejected, and its events emitted, by a command whose
\* revert of it has been applied
RejectedAfterRevert ==
    /\ \A k \in 1 .. Len(effects') :
          (effects'[k].eff = "emit"
              /\ effects'[k].name \in {"changeRejected", "changeUpdated"})
            => /\ HasReverted(effects'[k].payload.id)
               /\ document[effects'[k].payload.id] >= 1
    /\ (session # Null /\ session' # Null) =>
          \A p \in 1 .. Len(session.changes) :
              (session.changes[p].status = "pending"
                  /\ session'.changes[p].status = "rejected")
                => HasReverted(session.changes[p].id)

====
